---- MODULE Spec2Model ----
(***************************************************************************)
(* LMSR pricing engine (class LMSRPricer, src/README.md 245-512) as a      *)
(* state machine: the engine's params, the caller's market snapshot, and   *)
(* one action per public operation.                                        *)
(*                                                                         *)
(* The engine computes on JavaScript bigint, which is unbounded.  A bigint *)
(* m >= 0 is modelled as the sequence of its base-1000 digits, least       *)
(* significant first, with no leading zero digit (0 is << >>), so that     *)
(* every digit operation stays far below 2^31.  Read a value from its last *)
(* element backwards in groups of three decimal digits.                    *)
(***************************************************************************)
EXTENDS Integers, Sequences, FiniteSets, TLC

(* ------------------------- bigint arithmetic ------------------------- *)

Base == 1000

Zero == << >>

Limb(a, i) == IF i <= Len(a) THEN a[i] ELSE 0

Max2(x, y) == IF x >= y THEN x ELSE y
Min2(x, y) == IF x <= y THEN x ELSE y

\* The sequence with the elements of the function f on 1..n, worked out once
Tuple(f) == f \o << >>

\* a without its leading zero digits
Strip(a) ==
  IF a = << >> \/ a[Len(a)] # 0 THEN a
  ELSE LET nz == {i \in 1..Len(a) : a[i] # 0}
       IN  IF nz = {} THEN << >>
           ELSE SubSeq(a, 1, CHOOSE i \in nz : \A j \in nz : j <= i)

\* BigInt(n) for a small number n
RECURSIVE Big(_)
Big(n) == IF n = 0 THEN << >> ELSE <<n % Base>> \o Big(n \div Base)

\* A decimal literal written in groups of three digits, most significant first:
\* Dec(<<1, 000>>) is 1000.
Dec(groups) == Strip(Tuple([i \in 1..Len(groups) |-> groups[Len(groups) + 1 - i]]))

\* The sign of a - b: the highest digit that differs decides
Cmp(a, b) ==
  IF Len(a) # Len(b) THEN (IF Len(a) < Len(b) THEN -1 ELSE 1)
  ELSE IF a = b THEN 0
  ELSE LET i == CHOOSE i \in 1..Len(a) :
                  a[i] # b[i] /\ \A j \in (i + 1)..Len(a) : a[j] = b[j]
       IN  IF a[i] < b[i] THEN -1 ELSE 1

Lt(a, b) == Cmp(a, b) < 0
Le(a, b) == Cmp(a, b) <= 0
Gt(a, b) == Cmp(a, b) > 0
Ge(a, b) == Cmp(a, b) >= 0

\* Carries are worked out without recursion.  One pass leaves every column
\* its digit and hands its excess to the column above; three passes bring
\* columns below 2^31 down to at most Base + 2.
Pass(v) ==
  Tuple([i \in 1..(Len(v) + 1) |->
           (Limb(v, i) % Base) + (IF i = 1 THEN 0 ELSE v[i - 1] \div Base)])

\* For columns in 0..(2 * Base - 2) the carry into column i is 0 or 1: it is 1
\* when a column below overflows and every column between is Base - 1
CarryIn(v, i) ==
  \E j \in 1..(i - 1) : v[j] >= Base /\ \A k \in (j + 1)..(i - 1) : v[k] = Base - 1

Settle(v) ==
  Strip(Tuple([i \in 1..(Len(v) + 1) |->
           (Limb(v, i) + (IF CarryIn(v, i) THEN 1 ELSE 0)) % Base]))

\* The digits of the number whose columns are v, each in 0..(2^31 - 1)
Normalize(v) == Settle(Pass(Pass(Pass(Tuple(v)))))

\* JavaScript evaluates a call's arguments before its body.  Every operator
\* of the engine and of its arithmetic is therefore applied through Call,
\* which is handed the operator's name and its arguments as one tuple: the
\* tuple is worked out, argument by argument, before the body named XBody
\* is entered.  X(...) is the call, XBody(...) what the call computes.
RECURSIVE Call(_)
Add(a, b) == Call(<<"Add", a, b>>)
Sub(a, b) == Call(<<"Sub", a, b>>)
MulSmall(a, d) == Call(<<"MulSmall", a, d>>)
Mul(a, b) == Call(<<"Mul", a, b>>)
DivSmall(a, d) == Call(<<"DivSmall", a, d>>)
Div(a, b) == Call(<<"Div", a, b>>)
MulDiv(a, b, c) == Call(<<"MulDiv", a, b, c>>)
expApprox(x) == Call(<<"expApprox", x>>)
log2(x) == Call(<<"log2", x>>)
ln(x) == Call(<<"ln", x>>)
sqrt(x) == Call(<<"sqrt", x>>)
getCost(qYes, qNo, b) == Call(<<"getCost", qYes, qNo, b>>)
getPrice(qYes, qNo, b) == Call(<<"getPrice", qYes, qNo, b>>)
calculateB(p, totalVolume, txCount) ==
  Call(<<"calculateB", p, totalVolume, txCount>>)
calculateShares(payAmount, isYes, currentQYes, currentQNo, b) ==
  Call(<<"calculateShares", payAmount, isYes, currentQYes, currentQNo, b>>)
previewTrade(payAmount, isYes, currentQYes, currentQNo, currentB, feeRate) ==
  Call(<<"previewTrade", payAmount, isYes, currentQYes, currentQNo, currentB, feeRate>>)
validateState(qYes, qNo, b) == Call(<<"validateState", qYes, qNo, b>>)
calculateDynamicB(br) == Call(<<"calculateDynamicB", br>>)
calculateLMSRTrade(br, outcome, amount, currentB) ==
  Call(<<"calculateLMSRTrade", br, outcome, amount, currentB>>)
executeRealP2PTrade(br, outcome, amount) ==
  Call(<<"executeRealP2PTrade", br, outcome, amount>>)

\* a + b
AddBody(a, b) ==
  IF a = << >> THEN b
  ELSE IF b = << >> THEN a
  ELSE Settle(Tuple([i \in 1..Max2(Len(a), Len(b)) |-> Limb(a, i) + Limb(b, i)]))

\* For columns in (1 - Base)..(Base - 1) the borrow into column i is 0 or 1: it
\* is 1 when a column below is negative and every column between is 0
BorrowIn(v, i) ==
  \E j \in 1..(i - 1) : v[j] < 0 /\ \A k \in (j + 1)..(i - 1) : v[k] = 0

\* a - b, for a >= b
SubBody(a, b) ==
  IF b = << >> THEN a
  ELSE LET v == Tuple([i \in 1..Len(a) |-> a[i] - Limb(b, i)])
       IN  Strip(Tuple([i \in 1..Len(a) |->
                    (v[i] + Base - (IF BorrowIn(v, i) THEN 1 ELSE 0)) % Base]))

\* |a - b|
AbsDiff(a, b) == IF Ge(a, b) THEN Sub(a, b) ELSE Sub(b, a)

\* a * d for a small number d
MulSmallBody(a, d) ==
  IF d = 0 THEN << >> ELSE Normalize([i \in 1..Len(a) |-> a[i] * d])

\* The sum of a[i] * b[k + 1 - i] for i in lo..hi, four terms at a time
RECURSIVE ColSum(_, _, _, _, _)
ColSum(a, b, k, lo, hi) ==
  IF hi - lo < 4
  THEN a[lo] * b[k + 1 - lo]
       + (IF lo + 1 <= hi THEN a[lo + 1] * b[k - lo] ELSE 0)
       + (IF lo + 2 <= hi THEN a[lo + 2] * b[k - lo - 1] ELSE 0)
       + (IF lo + 3 <= hi THEN a[lo + 3] * b[k - lo - 2] ELSE 0)
  ELSE LET m == (lo + hi) \div 2
       IN  ColSum(a, b, k, lo, m) + ColSum(a, b, k, m + 1, hi)

\* a * b
MulBody(a, b) ==
  IF a = << >> \/ b = << >> THEN << >>
  ELSE Normalize([k \in 1..(Len(a) + Len(b) - 1) |->
         ColSum(a, b, k, Max2(1, k + 1 - Len(b)), Min2(Len(a), k))])

\* Quotient digits come out most significant first; each half of a range is
\* worked out before the half below it, which takes its remainder.
Reverse(q) == Tuple([i \in 1..Len(q) |-> q[Len(q) + 1 - i]])

\* The quotient digits of hi down to lo for a small divisor d, the remainder r
\* coming in from the digits above, and the remainder going out
RECURSIVE DivSmallRange(_, _, _, _, _)
DivSmallRange(a, d, lo, hi, r) ==
  IF lo = hi
  THEN LET t == r * Base + a[lo] IN << <<t \div d>>, t % d >>
  ELSE LET m == (lo + hi) \div 2
           h == DivSmallRange(a, d, m + 1, hi, r)
           l == DivSmallRange(a, d, lo, m, h[2])
       IN  <<h[1] \o l[1], l[2]>>

\* a / d (truncating) for a divisor 0 < d < Base * Base.  When d divides Base
\* the remainder that reaches a digit is that of the digit above alone.
DivSmallBody(a, d) ==
  IF a = << >> THEN << >>
  ELSE IF Base % d = 0
  THEN Strip(Tuple([i \in 1..Len(a) |-> (a[i] + Base * (Limb(a, i + 1) % d)) \div d]))
  ELSE Strip(Reverse(DivSmallRange(a, d, 1, Len(a), 0)[1]))

\* One step of long division by b (three digits or more): the quotient digit
\* of r / b for r < b * Base, and the remainder.  The digit is estimated from
\* the leading digits (never too high, at most 2 too low) and then corrected.
RECURSIVE Correct(_, _, _)
Correct(q, rem, b) ==
  IF Lt(rem, b) THEN <<q, rem>> ELSE Correct(q + 1, Sub(rem, b), b)

DivStep(r, b) ==
  IF Lt(r, b) THEN <<0, r>>
  ELSE LET n  == Len(b)
           r3 == (Limb(r, n + 1) * Base + r[n]) * Base + r[n - 1]
           b2 == b[n] * Base + b[n - 1]
           q  == r3 \div (b2 + 1)
       IN  Correct(q, Sub(r, MulSmall(b, q)), b)

RECURSIVE DivRange(_, _, _, _, _)
DivRange(a, b, lo, hi, r) ==
  IF lo = hi
  THEN LET r1 == IF r = << >> /\ a[lo] = 0 THEN << >> ELSE <<a[lo]>> \o r
           s  == DivStep(r1, b)
       IN  << <<s[1]>>, s[2] >>
  ELSE LET m == (lo + hi) \div 2
           h == DivRange(a, b, m + 1, hi, r)
           l == DivRange(a, b, lo, m, h[2])
       IN  <<h[1] \o l[1], l[2]>>

\* a / b (bigint division truncates), for b # 0.  Low zero digits of b are
\* dropped from both sides first: a / (d * Base^k) = (a / Base^k) / d.  The
\* long division starts with the leading Len(b) - 1 digits of a as remainder,
\* since the quotient digits above them are 0.
DivBody(a, b) ==
  IF Lt(a, b) THEN << >>
  ELSE LET k  == (CHOOSE i \in 1..Len(b) : b[i] # 0 /\ \A j \in 1..(i - 1) : b[j] = 0) - 1
           a1 == SubSeq(a, k + 1, Len(a))
           b1 == SubSeq(b, k + 1, Len(b))
           m  == Len(a1) - Len(b1) + 1
       IN  IF Len(b1) = 1 THEN DivSmall(a1, b1[1])
           ELSE IF Len(b1) = 2 THEN DivSmall(a1, b1[2] * Base + b1[1])
           ELSE Strip(Reverse(DivRange(a1, b1, 1, m, SubSeq(a1, m + 1, Len(a1)))[1]))

\* (a * b) / c
MulDivBody(a, b, c) == Div(Mul(a, b), c)

\* a ** n
RECURSIVE Pow(_, _)
Pow(a, n) ==
  IF n = 0 THEN <<1>>
  ELSE IF n = 1 THEN a
  ELSE Mul(Pow(a, n \div 2), Pow(a, n - n \div 2))

(* --------------------- signed bigint (arguments) ---------------------- *)

\* A bigint that may be negative: its sign and its absolute value
Pos(m) == [neg |-> FALSE, abs |-> m]
Neg(m) == [neg |-> m # Zero, abs |-> m]
IsNegative(x) == x.neg                      \* x < 0
IsPositive(x) == ~x.neg /\ x.abs # Zero     \* x > 0

(* ----------------------------- constants ----------------------------- *)

\* The values of the program's constants, written in decimal groups of three
\* digits.
\* BigInt(10**18): 10**18 is a double that holds 10^18 exactly
E18 == Dec(<<1, 0, 0, 0, 0, 0, 0>>)
TwoE18 == Dec(<<2, 0, 0, 0, 0, 0, 0>>)
ThreeE18 == Dec(<<3, 0, 0, 0, 0, 0, 0>>)
FourE18 == Dec(<<4, 0, 0, 0, 0, 0, 0>>)
FiveE18 == Dec(<<5, 0, 0, 0, 0, 0, 0>>)
\* BigInt(5 * 10**17)
Half == Dec(<<500, 0, 0, 0, 0, 0>>)
\* BigInt(42) * BigInt(10**18)
ExpCap == Dec(<<42, 0, 0, 0, 0, 0, 0>>)
\* BigInt(2**256 - 1): the double 2**256 - 1 rounds to 2^256
ExpMax ==
  Dec(<<115, 792, 89, 237, 316, 195, 423, 570, 985, 8, 687, 907, 853,
        269, 984, 665, 640, 564, 39, 457, 584, 7, 913, 129, 639, 936>>)
\* BigInt(693147180559945309): the literal is a double, and the nearest double
\* to 693147180559945309 is 693147180559945344
LN2 == Dec(<<693, 147, 180, 559, 945, 344>>)
\* BigInt(15) * BigInt(10**17), BigInt(125) * BigInt(10**16)
Log2Hi == Dec(<<1, 500, 0, 0, 0, 0, 0>>)
Log2Lo == Dec(<<1, 250, 0, 0, 0, 0, 0>>)
\* BigInt(5) * BigInt(10**17), BigInt(32) * BigInt(10**16)
Log2HiAdd == Dec(<<500, 0, 0, 0, 0, 0>>)
Log2LoAdd == Dec(<<320, 0, 0, 0, 0, 0>>)
\* BigInt(10**15)
Tolerance == Dec(<<1, 0, 0, 0, 0, 0>>)

\* How a call ends: with a value, or with a throw
Ok(v) == [threw |-> FALSE, val |-> v]
Thrown(msg) == [threw |-> TRUE, val |-> msg]

(* --------------------------- numeric core ---------------------------- *)

\* A while loop is run by halves: n iterations are n \div 2 iterations and
\* then the rest.  A step taken when the loop's condition is false leaves the
\* state as it is, so when the first half changes nothing the loop has ended.

expApproxBody(x) ==
  IF x = Zero THEN E18
  ELSE IF Ge(x, ExpCap) THEN ExpMax
  ELSE LET term1 == x
           term2 == MulDiv(term1, x, TwoE18)
           term3 == MulDiv(term2, x, ThreeE18)
           term4 == MulDiv(term3, x, FourE18)
           term5 == MulDiv(term4, x, FiveE18)
       IN  Add(Add(Add(Add(Add(E18, term1), term2), term3), term4), term5)

\* while (y >= 2 * 10**18) { y /= 2; result += 10**18 }, on s = <<y, result>>
Log2Step(s) ==
  IF Lt(s[1], TwoE18) THEN s ELSE <<DivSmall(s[1], 2), Add(s[2], E18)>>

RECURSIVE Log2Loop(_, _)
Log2Loop(s, n) ==
  LET h == Log2Loop(s, n \div 2)
  IN  CASE n <= 1 -> Log2Step(s)
        [] h = s  -> s
        [] OTHER  -> Log2Loop(h, n - n \div 2)

\* if (x <= 0) throw new Error("log2: x must be positive")
log2Throws(x) == x = Zero

\* log2 with the two fractional steps exchanged
log2StepsExchanged(x) ==
  LET s == Log2Loop(<<x, Zero>>, Max2(1, 10 * Len(x) - 60))
  IN  IF Ge(s[1], Log2Hi) THEN Add(s[2], Log2LoAdd)
      ELSE IF Ge(s[1], Log2Lo) THEN Add(s[2], Log2HiAdd)
      ELSE s[2]

\* log2(x) for x > 0.  Each digit holds less than 10 bits and 2 * 10^18 has
\* more than 60, so 10 * Len(x) - 60 halvings bring x below 2 * 10^18.
log2Body(x) ==
  LET s == Log2Loop(<<x, Zero>>, Max2(1, 10 * Len(x) - 60))
  IN  IF Ge(s[1], Log2Hi) THEN Add(s[2], Log2HiAdd)
      ELSE IF Ge(s[1], Log2Lo) THEN Add(s[2], Log2LoAdd)
      ELSE s[2]

\* ln without its domain check
lnNeverThrows(x) == FALSE

\* if (x <= 0) throw new Error("ln: x must be positive")
lnThrows(x) == x = Zero

\* ln(x) for x > 0
lnBody(x) ==
  IF x = E18 THEN Zero
  ELSE MulDiv(log2(x), LN2, E18)

\* while (z < y) { y = z; z = (x / z + z) / 2 }, on s = <<y, z>>
SqrtStep(x, s) ==
  IF ~Lt(s[2], s[1]) THEN s ELSE <<s[2], DivSmall(Add(Div(x, s[2]), s[2]), 2)>>

RECURSIVE SqrtLoop(_, _, _)
SqrtLoop(x, s, n) ==
  LET h == SqrtLoop(x, s, n \div 2)
  IN  CASE n <= 1 -> SqrtStep(x, s)
        [] h = s  -> s
        [] OTHER  -> SqrtLoop(x, h, n - n \div 2)

\* sqrt returning z, the last estimate, where the code returns y
sqrtReturnsZ(x) ==
  IF x = Zero THEN Zero
  ELSE SqrtLoop(x, <<x, DivSmall(Add(x, <<1>>), 2)>>, 10 * Len(x) + 8)[2]

\* z decreases on every iteration and at least halves while z * z > 4 * x
sqrtBody(x) ==
  IF x = Zero THEN Zero
  ELSE SqrtLoop(x, <<x, DivSmall(Add(x, <<1>>), 2)>>, 10 * Len(x) + 8)[1]

(* ------------------------- cost and price ---------------------------- *)

\* Whether getCost throws: a division by b = 0 (a RangeError), or ln's error
getCostThrows(qYes, qNo, b) ==
  IF qYes = Zero /\ qNo = Zero THEN lnThrows(TwoE18)
  ELSE \/ b = Zero
       \/ lnThrows(Add(expApprox(MulDiv(qYes, E18, b)),
                       expApprox(MulDiv(qNo, E18, b))))

\* getCost's value when it does not throw
getCostBody(qYes, qNo, b) ==
  IF qYes = Zero /\ qNo = Zero THEN MulDiv(b, ln(TwoE18), E18)
  ELSE LET expYes == expApprox(MulDiv(qYes, E18, b))
           expNo  == expApprox(MulDiv(qNo, E18, b))
           sum    == Add(expYes, expNo)
       IN  MulDiv(b, ln(sum), E18)

\* getPrice dividing by b before it looks at the quantities
getPriceThrowsOnZeroB(qYes, qNo, b) == b = Zero

\* Whether getPrice throws: a division by b = 0 (a RangeError)
getPriceThrows(qYes, qNo, b) == ~(qYes = Zero /\ qNo = Zero) /\ b = Zero

\* getPrice multiplying the quantities by b where it should divide by it
getPriceTimesB(qYes, qNo, b) ==
  IF qYes = Zero /\ qNo = Zero THEN <<Half, Half>>
  ELSE LET expYes == expApprox(Mul(qYes, b))
           expNo  == expApprox(Mul(qNo, b))
           sumExp == Add(expYes, expNo)
       IN  IF sumExp = Zero THEN <<Half, Half>>
           ELSE <<MulDiv(expYes, E18, sumExp), MulDiv(expNo, E18, sumExp)>>

\* getPrice with pNo taken over expYes alone instead of the sum
getPriceOverExpYes(qYes, qNo, b) ==
  IF qYes = Zero /\ qNo = Zero THEN <<Half, Half>>
  ELSE LET expYes == expApprox(MulDiv(qYes, E18, b))
           expNo  == expApprox(MulDiv(qNo, E18, b))
           sumExp == Add(expYes, expNo)
       IN  IF sumExp = Zero THEN <<Half, Half>>
           ELSE <<MulDiv(expYes, E18, sumExp), MulDiv(expNo, E18, expYes)>>

\* Whether getPrice takes its fallback: if (sumExp === BigInt(0))
getPriceFallsBack(qYes, qNo, b) ==
  /\ ~(qYes = Zero /\ qNo = Zero)
  /\ Add(expApprox(MulDiv(qYes, E18, b)), expApprox(MulDiv(qNo, E18, b))) = Zero

\* getPrice's value when it does not throw
getPriceBody(qYes, qNo, b) ==
  IF qYes = Zero /\ qNo = Zero THEN <<Half, Half>>
  ELSE LET expYes == expApprox(MulDiv(qYes, E18, b))
           expNo  == expApprox(MulDiv(qNo, E18, b))
           sumExp == Add(expYes, expNo)
       IN  IF sumExp = Zero THEN <<Half, Half>>
           ELSE <<MulDiv(expYes, E18, sumExp), MulDiv(expNo, E18, sumExp)>>

\* Whether calculateB throws: a division by V0 = 0, or ln's error
calculateBThrows(p, totalVolume, txCount) ==
  /\ ~(totalVolume = Zero /\ txCount = Zero)
  /\ \/ p.V0 = Zero
     \/ lnThrows(Add(E18, Mul(txCount, E18)))

\* calculateB returning the default b0 instead of the configured one at (0, 0)
calculateBDefaultB0(p, totalVolume, txCount) ==
  IF totalVolume = Zero /\ txCount = Zero THEN Mul(Big(100), E18)
  ELSE LET volumeRatio == MulDiv(totalVolume, E18, p.V0)
           sqrtVolume  == sqrt(volumeRatio)
           lnTxCount   == ln(Add(E18, Mul(txCount, E18)))
           multiplier  == Add(Add(E18, MulDiv(p.alpha, sqrtVolume, E18)),
                              MulDiv(p.beta, lnTxCount, E18))
       IN  MulDiv(p.b0, multiplier, E18)

\* calculateB with the volume term subtracted instead of added
calculateBVolumeSubtracted(p, totalVolume, txCount) ==
  IF totalVolume = Zero /\ txCount = Zero THEN p.b0
  ELSE LET volumeRatio == MulDiv(totalVolume, E18, p.V0)
           sqrtVolume  == sqrt(volumeRatio)
           lnTxCount   == ln(Add(E18, Mul(txCount, E18)))
           multiplier  == Add(Sub(E18, MulDiv(p.alpha, sqrtVolume, E18)),
                              MulDiv(p.beta, lnTxCount, E18))
       IN  MulDiv(p.b0, multiplier, E18)

\* calculateB, on the engine's params p

calculateBBody(p, totalVolume, txCount) ==
  IF totalVolume = Zero /\ txCount = Zero THEN p.b0
  ELSE LET volumeRatio == MulDiv(totalVolume, E18, p.V0)
           sqrtVolume  == sqrt(volumeRatio)
           lnTxCount   == ln(Add(E18, Mul(txCount, E18)))
           multiplier  == Add(Add(E18, MulDiv(p.alpha, sqrtVolume, E18)),
                              MulDiv(p.beta, lnTxCount, E18))
       IN  MulDiv(p.b0, multiplier, E18)

(* --------------------------- share solver ---------------------------- *)

maxIterations == 50

\* The search step with the NO branch pricing the market without mid
SearchStepNoSideStale(s, isYes, currentQYes, currentQNo, b, targetCost) ==
  IF ~(Lt(s[1], s[2]) /\ s[3] < maxIterations) THEN s
  ELSE LET mid     == DivSmall(Add(s[1], s[2]), 2)
           newQYes == IF isYes THEN Add(currentQYes, mid) ELSE currentQYes
           newQNo  == currentQNo
           newCost == getCost(newQYes, newQNo, b)
       IN  IF Lt(newCost, targetCost) THEN <<Add(mid, <<1>>), s[2], s[3] + 1>>
                                      ELSE <<s[1], mid, s[3] + 1>>

\* The search step that moves low to mid, not past it
SearchStepLowIsMid(s, isYes, currentQYes, currentQNo, b, targetCost) ==
  IF ~(Lt(s[1], s[2]) /\ s[3] < maxIterations) THEN s
  ELSE LET mid     == DivSmall(Add(s[1], s[2]), 2)
           newQYes == IF isYes THEN Add(currentQYes, mid) ELSE currentQYes
           newQNo  == IF isYes THEN currentQNo ELSE Add(currentQNo, mid)
           newCost == getCost(newQYes, newQNo, b)
       IN  IF Lt(newCost, targetCost) THEN <<mid, s[2], s[3] + 1>>
                                      ELSE <<s[1], mid, s[3] + 1>>

\* while (low < high && iterations < maxIterations) { ... }: one iteration,
\* on s = <<low, high, iterations>>
SearchStep(s, isYes, currentQYes, currentQNo, b, targetCost) ==
  IF ~(Lt(s[1], s[2]) /\ s[3] < maxIterations) THEN s
  ELSE LET mid     == DivSmall(Add(s[1], s[2]), 2)
           newQYes == IF isYes THEN Add(currentQYes, mid) ELSE currentQYes
           newQNo  == IF isYes THEN currentQNo ELSE Add(currentQNo, mid)
           newCost == getCost(newQYes, newQNo, b)
       IN  IF Lt(newCost, targetCost) THEN <<Add(mid, <<1>>), s[2], s[3] + 1>>
                                      ELSE <<s[1], mid, s[3] + 1>>

RECURSIVE SearchLoop(_, _, _, _, _, _, _)
SearchLoop(s, n, isYes, currentQYes, currentQNo, b, targetCost) ==
  LET h == SearchLoop(s, n \div 2, isYes, currentQYes, currentQNo, b, targetCost)
  IN  CASE n <= 1 -> SearchStep(s, isYes, currentQYes, currentQNo, b, targetCost)
        [] h = s  -> s
        [] OTHER  -> SearchLoop(h, n - n \div 2, isYes, currentQYes, currentQNo, b, targetCost)

\* calculateShares with the search bound at 100 times the payment
calculateSharesHighTimes100(payAmount, isYes, currentQYes, currentQNo, b) ==
  LET currentCost == getCost(currentQYes, currentQNo, b)
      targetCost  == Add(currentCost, payAmount)
  IN  SearchLoop(<<Zero, Mul(payAmount, Big(100)), 0>>, maxIterations,
                 isYes, currentQYes, currentQNo, b, targetCost)[1]

\* calculateShares searching no further than payAmount shares
calculateSharesHighIsPay(payAmount, isYes, currentQYes, currentQNo, b) ==
  LET currentCost == getCost(currentQYes, currentQNo, b)
      targetCost  == Add(currentCost, payAmount)
  IN  SearchLoop(<<Zero, payAmount, 0>>, maxIterations,
                 isYes, currentQYes, currentQNo, b, targetCost)[1]

\* calculateShares giving its search three iterations
calculateSharesThreeIterations(payAmount, isYes, currentQYes, currentQNo, b) ==
  LET currentCost == getCost(currentQYes, currentQNo, b)
      targetCost  == Add(currentCost, payAmount)
  IN  SearchLoop(<<Zero, Mul(payAmount, Big(10)), 0>>, 3,
                 isYes, currentQYes, currentQNo, b, targetCost)[1]

\* calculateShares returning high, the upper end of the interval left
calculateSharesReturnsHigh(payAmount, isYes, currentQYes, currentQNo, b) ==
  LET currentCost == getCost(currentQYes, currentQNo, b)
      targetCost  == Add(currentCost, payAmount)
  IN  SearchLoop(<<Zero, Mul(payAmount, Big(10)), 0>>, maxIterations,
                 isYes, currentQYes, currentQNo, b, targetCost)[2]

\* calculateShares for b > 0 (it throws where getCost throws)
calculateSharesBody(payAmount, isYes, currentQYes, currentQNo, b) ==
  LET currentCost == getCost(currentQYes, currentQNo, b)
      targetCost  == Add(currentCost, payAmount)
  IN  SearchLoop(<<Zero, Mul(payAmount, Big(10)), 0>>, maxIterations,
                 isYes, currentQYes, currentQNo, b, targetCost)[1]

\* calculateShares throws where a getCost inside it divides by b = 0: at once
\* when a quantity is non-zero, in the first iteration (mid > 0) otherwise
calculateSharesThrows(payAmount, isYes, currentQYes, currentQNo, b) ==
  b = Zero /\ ~(currentQYes = Zero /\ currentQNo = Zero /\ payAmount = Zero)

(* ------------------------------ preview ------------------------------ *)

FeeDenominator == Dec(<<10, 0>>)

\* a - b as a signed bigint
SignedSub(a, b) == IF Ge(a, b) THEN Pos(Sub(a, b)) ELSE Neg(Sub(b, a))

\* x <= y on signed bigints
SignedLe(x, y) ==
  \/ x.neg /\ ~y.neg
  \/ x.neg /\ y.neg /\ Ge(x.abs, y.abs)
  \/ ~x.neg /\ ~y.neg /\ Le(x.abs, y.abs)

\* (x * m) / d on a signed x and m, d > 0: bigint division truncates toward 0
SignedMulDiv(x, m, d) ==
  LET q == MulDiv(x.abs, m, d) IN IF x.neg THEN Neg(q) ELSE Pos(q)

\* previewTrade dividing by expectedShares without looking at it first
previewTradeUnguardedAverage(payAmount, isYes, currentQYes, currentQNo, currentB, feeRate) ==
  LET fee == MulDiv(payAmount, feeRate, FeeDenominator)
  IN  IF Gt(fee, payAmount) THEN TRUE
      ELSE \/ calculateSharesThrows(Sub(payAmount, fee), isYes, currentQYes, currentQNo, currentB)
           \/ calculateShares(Sub(payAmount, fee), isYes, currentQYes, currentQNo, currentB) = Zero

\* previewTrade throws where calculateShares does; a negative netAmount (a
\* feeRate above 10000) leaves the search loop unentered, and then only the
\* getCost before the loop and the getPrice after it can throw
previewTradeThrows(payAmount, isYes, currentQYes, currentQNo, currentB, feeRate) ==
  LET fee == MulDiv(payAmount, feeRate, FeeDenominator)
  IN  IF Gt(fee, payAmount)
      THEN getCostThrows(currentQYes, currentQNo, currentB)
           \/ getPriceThrows(currentQYes, currentQNo, currentB)
      ELSE calculateSharesThrows(Sub(payAmount, fee), isYes, currentQYes, currentQNo, currentB)

\* previewTrade with the fee charged on top: the shares are solved for payAmount
previewTradeFeeOnTop(payAmount, isYes, currentQYes, currentQNo, currentB, feeRate) ==
  LET fee            == MulDiv(payAmount, feeRate, FeeDenominator)
      netAmount      == Sub(payAmount, fee)
      expectedShares == calculateShares(payAmount, isYes, currentQYes, currentQNo, currentB)
      newQYes        == IF isYes THEN Add(currentQYes, expectedShares) ELSE currentQYes
      newQNo         == IF isYes THEN currentQNo ELSE Add(currentQNo, expectedShares)
      newPrices      == getPrice(newQYes, newQNo, currentB)
      newPrice       == IF isYes THEN newPrices[1] ELSE newPrices[2]
      currentPrices  == getPrice(currentQYes, currentQNo, currentB)
      currentPrice   == IF isYes THEN currentPrices[1] ELSE currentPrices[2]
      priceImpact    == IF currentPrice # Zero
                        THEN SignedMulDiv(SignedSub(newPrice, currentPrice), E18, currentPrice)
                        ELSE Pos(Zero)
      avgPrice       == IF expectedShares # Zero
                        THEN MulDiv(netAmount, E18, expectedShares)
                        ELSE Zero
  IN  [expectedShares |-> expectedShares,
       newPrice       |-> newPrice,
       priceImpact    |-> priceImpact,
       avgPrice       |-> avgPrice,
       fee            |-> fee,
       netAmount      |-> netAmount]

\* previewTrade reporting the price after the trade in place of the impact
previewTradeImpactIsNewPrice(payAmount, isYes, currentQYes, currentQNo, currentB, feeRate) ==
  LET fee            == MulDiv(payAmount, feeRate, FeeDenominator)
      netAmount      == Sub(payAmount, fee)
      expectedShares == calculateShares(netAmount, isYes, currentQYes, currentQNo, currentB)
      newQYes        == IF isYes THEN Add(currentQYes, expectedShares) ELSE currentQYes
      newQNo         == IF isYes THEN currentQNo ELSE Add(currentQNo, expectedShares)
      newPrices      == getPrice(newQYes, newQNo, currentB)
      newPrice       == IF isYes THEN newPrices[1] ELSE newPrices[2]
      avgPrice       == IF expectedShares # Zero
                        THEN MulDiv(netAmount, E18, expectedShares)
                        ELSE Zero
  IN  [expectedShares |-> expectedShares,
       newPrice       |-> newPrice,
       priceImpact    |-> Pos(newPrice),
       avgPrice       |-> avgPrice,
       fee            |-> fee,
       netAmount      |-> netAmount]

\* previewTrade reading the new price of the outcome that was not bought
previewTradeNewPriceOtherSide(payAmount, isYes, currentQYes, currentQNo, currentB, feeRate) ==
  LET fee            == MulDiv(payAmount, feeRate, FeeDenominator)
      netAmount      == Sub(payAmount, fee)
      expectedShares == calculateShares(netAmount, isYes, currentQYes, currentQNo, currentB)
      newQYes        == IF isYes THEN Add(currentQYes, expectedShares) ELSE currentQYes
      newQNo         == IF isYes THEN currentQNo ELSE Add(currentQNo, expectedShares)
      newPrices      == getPrice(newQYes, newQNo, currentB)
      newPrice       == IF isYes THEN newPrices[2] ELSE newPrices[1]
      currentPrices  == getPrice(currentQYes, currentQNo, currentB)
      currentPrice   == IF isYes THEN currentPrices[1] ELSE currentPrices[2]
      priceImpact    == IF currentPrice # Zero
                        THEN SignedMulDiv(SignedSub(newPrice, currentPrice), E18, currentPrice)
                        ELSE Pos(Zero)
      avgPrice       == IF expectedShares # Zero
                        THEN MulDiv(netAmount, E18, expectedShares)
                        ELSE Zero
  IN  [expectedShares |-> expectedShares,
       newPrice       |-> newPrice,
       priceImpact    |-> priceImpact,
       avgPrice       |-> avgPrice,
       fee            |-> fee,
       netAmount      |-> netAmount]

\* previewTrade where it does not throw.  netAmount is >= 0 for feeRate <=
\* 10000; above that it is negative and reported signed, the search bound
\* 10 * netAmount is below low = 0 and calculateShares returns 0
previewTradeBody(payAmount, isYes, currentQYes, currentQNo, currentB, feeRate) ==
  LET fee            == MulDiv(payAmount, feeRate, FeeDenominator)
      overFee        == Gt(fee, payAmount)
      netAmount      == IF overFee THEN Neg(Sub(fee, payAmount)) ELSE Sub(payAmount, fee)
      expectedShares == IF overFee THEN Zero
                        ELSE calculateShares(netAmount, isYes, currentQYes, currentQNo, currentB)
      newQYes        == IF isYes THEN Add(currentQYes, expectedShares) ELSE currentQYes
      newQNo         == IF isYes THEN currentQNo ELSE Add(currentQNo, expectedShares)
      newPrices      == getPrice(newQYes, newQNo, currentB)
      newPrice       == IF isYes THEN newPrices[1] ELSE newPrices[2]
      currentPrices  == getPrice(currentQYes, currentQNo, currentB)
      currentPrice   == IF isYes THEN currentPrices[1] ELSE currentPrices[2]
      priceImpact    == IF currentPrice # Zero
                        THEN SignedMulDiv(SignedSub(newPrice, currentPrice), E18, currentPrice)
                        ELSE Pos(Zero)
      avgPrice       == IF expectedShares # Zero
                        THEN MulDiv(netAmount, E18, expectedShares)
                        ELSE Zero
  IN  [expectedShares |-> expectedShares,
       newPrice       |-> newPrice,
       priceImpact    |-> priceImpact,
       avgPrice       |-> avgPrice,
       fee            |-> fee,
       netAmount      |-> netAmount]

\* The change in the bought outcome's price when shares are added to it:
\* newPrice - currentPrice, as previewTrade takes them from getPrice
priceChange(shares, isYes, currentQYes, currentQNo, currentB) ==
  LET newQYes       == IF isYes THEN Add(currentQYes, shares) ELSE currentQYes
      newQNo        == IF isYes THEN currentQNo ELSE Add(currentQNo, shares)
      newPrices     == getPrice(newQYes, newQNo, currentB)
      newPrice      == IF isYes THEN newPrices[1] ELSE newPrices[2]
      currentPrices == getPrice(currentQYes, currentQNo, currentB)
      currentPrice  == IF isYes THEN currentPrices[1] ELSE currentPrices[2]
  IN  SignedSub(newPrice, currentPrice)

(* ----------------------------- validation ----------------------------- *)

MantissaBits == 53
MaxShift == 11

\* Number(m) for 0 <= m < 2^(MantissaBits + MaxShift): the nearest double, ties
\* to the even mantissa; every integer below 2^53 is a double
Number(m) ==
  IF Lt(m, Pow(Big(2), MantissaBits)) THEN m
  ELSE LET e    == CHOOSE k \in 1..MaxShift :
                     /\ Lt(m, Pow(Big(2), MantissaBits + k))
                     /\ Ge(m, Pow(Big(2), MantissaBits + k - 1))
           p    == Pow(Big(2), e)
           q    == Div(m, p)
           r    == Sub(m, Mul(q, p))
           half == Pow(Big(2), e - 1)
           up   == Gt(r, half) \/ (r = half /\ q[1] % 2 = 1)
       IN  Mul(IF up THEN Add(q, <<1>>) ELSE q, p)

\* validateState rejecting b < 0 only, so that b = 0 reaches getPrice
validateStateZeroBAllowed(qYes, qNo, b) ==
  IF IsNegative(qYes) \/ IsNegative(qNo) \/ IsNegative(b) THEN Ok(FALSE)
  ELSE IF getPriceThrows(qYes.abs, qNo.abs, b.abs) THEN Thrown("RangeError")
  ELSE LET prices   == getPrice(qYes.abs, qNo.abs, b.abs)
           priceSum == Add(prices[1], prices[2])
       IN  Ok(Lt(Number(AbsDiff(priceSum, E18)), Number(Tolerance)))

\* validateState on signed arguments; past the guard all three are >= 0, b > 0
validateStateBody(qYes, qNo, b) ==
  IF IsNegative(qYes) \/ IsNegative(qNo) \/ ~IsPositive(b) THEN Ok(FALSE)
  ELSE IF getPriceThrows(qYes.abs, qNo.abs, b.abs) THEN Thrown("RangeError")
  ELSE LET prices   == getPrice(qYes.abs, qNo.abs, b.abs)
           priceSum == Add(prices[1], prices[2])
       IN  Ok(Lt(Number(AbsDiff(priceSum, E18)), Number(Tolerance)))

(* ------------------------- the broker's trades ------------------------- *)

\* parseUnits(units, decimals) of a whole number of units
parseUnits(units, decimals) == Mul(Big(units), Pow(Big(10), decimals))

\* calculateDynamicB(): BigInt(this.txCount) is exact for a count this small
calculateDynamicBBody(br) ==
  Add(Add(parseUnits(100, 6), Div(br.totalVolume, parseUnits(1000, 6))),
      Big(br.txCount))

calculateLMSRTradeBody(br, outcome, amount, currentB) ==
  LET currentQ == IF outcome THEN br.qYes ELSE br.qNo
      shares   == Div(Mul(amount, parseUnits(1, 18)),
                      Add(parseUnits(1, 6), Div(currentQ, currentB)))
      newQYes  == IF outcome THEN Add(br.qYes, shares) ELSE br.qYes
      newQNo   == IF outcome THEN br.qNo ELSE Add(br.qNo, shares)
      price    == Div(Mul(newQYes, parseUnits(1, 18)), Add(newQYes, newQNo))
  IN  [shares |-> shares, newPrice |-> price]

\* An executeRealP2PTrade that writes the counters back from what it read
\* before the trades still being signed had written theirs
executeRealP2PTradeLostUpdate(br, outcome, amount) ==
  LET trade == calculateLMSRTrade(br, outcome, amount, calculateDynamicB(br))
      done  == Len(br.pendingTrades)
      tradeMessage == [outcome |-> outcome, amount |-> amount,
                       shares |-> trade.shares, price |-> trade.newPrice,
                       nonce |-> done + 1]
  IN  [br EXCEPT !.qYes = IF outcome THEN Add(br.qYes, trade.shares) ELSE br.qYes,
                 !.qNo = IF outcome THEN br.qNo ELSE Add(br.qNo, trade.shares),
                 !.totalVolume = Add(br.totalVolume, amount),
                 !.txCount = done + 1,
                 !.tradeNonce = done + 2,
                 !.signing = br.signing \cup {tradeMessage}]

\* executeRealP2PTrade up to its await: the broker after the computation, the
\* write-back and the nonce, with the trade message waiting for its signature
executeRealP2PTradeBody(br, outcome, amount) ==
  LET trade == calculateLMSRTrade(br, outcome, amount, calculateDynamicB(br))
      tradeMessage == [outcome |-> outcome, amount |-> amount,
                       shares |-> trade.shares, price |-> trade.newPrice,
                       nonce |-> br.tradeNonce]
  IN  [br EXCEPT !.qYes = IF outcome THEN Add(br.qYes, trade.shares) ELSE br.qYes,
                 !.qNo = IF outcome THEN br.qNo ELSE Add(br.qNo, trade.shares),
                 !.totalVolume = Add(br.totalVolume, amount),
                 !.txCount = br.txCount + 1,
                 !.tradeNonce = br.tradeNonce + 1,
                 !.signing = br.signing \cup {tradeMessage}]

\* The body of the call c = <<name, argument, ...>>
Call(c) ==
  CASE c[1] = "Add" -> AddBody(c[2], c[3])
    [] c[1] = "Sub" -> SubBody(c[2], c[3])
    [] c[1] = "MulSmall" -> MulSmallBody(c[2], c[3])
    [] c[1] = "Mul" -> MulBody(c[2], c[3])
    [] c[1] = "DivSmall" -> DivSmallBody(c[2], c[3])
    [] c[1] = "Div" -> DivBody(c[2], c[3])
    [] c[1] = "MulDiv" -> MulDivBody(c[2], c[3], c[4])
    [] c[1] = "expApprox" -> expApproxBody(c[2])
    [] c[1] = "log2" -> log2Body(c[2])
    [] c[1] = "ln" -> lnBody(c[2])
    [] c[1] = "sqrt" -> sqrtBody(c[2])
    [] c[1] = "getCost" -> getCostBody(c[2], c[3], c[4])
    [] c[1] = "getPrice" -> getPriceBody(c[2], c[3], c[4])
    [] c[1] = "calculateB" -> calculateBBody(c[2], c[3], c[4])
    [] c[1] = "calculateShares" -> calculateSharesBody(c[2], c[3], c[4], c[5], c[6])
    [] c[1] = "previewTrade" -> previewTradeBody(c[2], c[3], c[4], c[5], c[6], c[7])
    [] c[1] = "validateState" -> validateStateBody(c[2], c[3], c[4])
    [] c[1] = "calculateDynamicB" -> calculateDynamicBBody(c[2])
    [] c[1] = "calculateLMSRTrade" ->
         calculateLMSRTradeBody(c[2], c[3], c[4], c[5])
    [] c[1] = "executeRealP2PTrade" ->
         executeRealP2PTradeBody(c[2], c[3], c[4])

(* --------------------------- program constants --------------------------- *)

DEFAULT_LMSR_PARAMS ==
  [b0    |-> Dec(<<100, 0, 0, 0, 0, 0, 0>>),
   alpha |-> Dec(<<50, 0, 0, 0, 0, 0>>),
   beta  |-> Dec(<<20, 0, 0, 0, 0, 0>>),
   V0    |-> Dec(<<1, 0, 0, 0, 0, 0, 0, 0, 0>>)]

DEFAULT_FEE_RATE == 50

(* ------------------------------- inputs ------------------------------- *)

\* The bounds of the model.  Quantities and liquidity come at two scales:
\* a few wei (where every truncation shows) and whole units of 10^18.
MaxWei == 2        \* wei-scale quantities are 0..MaxWei
MaxWeiB == 5       \* wei-scale liquidity is 0..MaxWeiB (0: the invalid b)
MaxLots == 2       \* unit-scale quantities are 0..MaxLots lots of 50 units
MaxPay == 4        \* wei-scale payments are 0..MaxPay
MaxVolLots == 4    \* volumes are 0, 1 wei and 1..MaxVolLots quarters of V0
MaxTx == 10        \* transaction counts are 0..MaxTx
MaxB0Wei == 1      \* besides the default, b0 is 1..MaxB0Wei wei

Lot == Dec(<<50, 0, 0, 0, 0, 0, 0>>)

\* The largest qYes with getCost(qYes, 0, 100 units) = getCost(0, 0, 100 units):
\* one wei more and log2 adds its 0.32 step.
StepEdge == Dec(<<40, 546, 947, 365, 631, 93, 999>>)

\* The least q with q / b0 >= 42 for the default b0, where expApprox saturates
SatEdge == Dec(<<4, 200, 0, 0, 0, 0, 0, 0>>)

WeiQ == {Big(w) : w \in 0..MaxWei}
WeiB == {Big(w) : w \in 0..MaxWeiB}
UnitQ == {Mul(Big(k), Lot) : k \in 0..MaxLots} \cup {StepEdge}
SatQ == {Sub(SatEdge, <<1>>), SatEdge}

WeiMarkets == WeiQ \X WeiQ \X WeiB
SatMarkets == (UnitQ \cup SatQ) \X (UnitQ \cup SatQ) \X {DEFAULT_LMSR_PARAMS.b0}

\* The quantities a market of liquidity b can grow to in this model
QScale(b) == IF Lt(b, E18) THEN WeiQ ELSE UnitQ \cup SatQ

UnitPay == Dec(<<100, 0, 0, 0, 0, 0, 0>>)

\* The markets trades are solved at: wei-scale markets with each side empty
\* or at MaxWei, and at the default liquidity the empty market, the balanced
\* market of 100 units a side, and the market at StepEdge
TradeMarkets ==
  ({Zero, Big(MaxWei)} \X {Zero, Big(MaxWei)} \X WeiB) \cup
  {<<Zero, Zero, DEFAULT_LMSR_PARAMS.b0>>,
   <<UnitPay, UnitPay, DEFAULT_LMSR_PARAMS.b0>>,
   <<StepEdge, Zero, DEFAULT_LMSR_PARAMS.b0>>}

\* Payments offered to a market: nothing or a few wei at a wei-scale market
\* (one wei where a side is past the wei grid, at the expApprox cap); one wei
\* at a unit-scale market, and 100 units at the balanced market of 100 units
\* a side
Pays(qYes, qNo, b) ==
  IF Lt(b, E18)
  THEN IF Gt(Add(qYes, qNo), Big(2 * MaxWei)) THEN {<<1>>}
       ELSE {Big(k) : k \in 0..MaxPay}
  ELSE {<<1>>} \cup (IF qYes = UnitPay /\ qNo = UnitPay THEN {UnitPay} ELSE {})

\* A payment of a thousandth of a unit: its search bound 10^16 exceeds
\* 2^maxIterations, and at the empty default market no share count within the
\* bound moves the cost
MilliPay == Dec(<<1, 0, 0, 0, 0, 0>>)

\* Payments offered to calculateShares
SharePays(qYes, qNo, b) ==
  Pays(qYes, qNo, b) \cup
  (IF qYes = Zero /\ qNo = Zero /\ b = DEFAULT_LMSR_PARAMS.b0 THEN {MilliPay} ELSE {})

FeeRates == {Big(DEFAULT_FEE_RATE), FeeDenominator}

\* Fee rates at which the fee of a few wei is truncated: the default 0.5%
\* (a fee of 0), 50% and 100%; a payment of whole units pays the default
TruncFeeRates(payAmount) ==
  IF Lt(payAmount, E18) THEN {Big(DEFAULT_FEE_RATE), Big(5000), FeeDenominator}
  ELSE {Big(DEFAULT_FEE_RATE)}

\* The markets fees are looked at on: of the markets trades are solved at,
\* those of the largest wei-scale liquidity and those of the default one
FeeMarkets == {m \in TradeMarkets : Ge(m[3], Big(MaxWeiB))}

MaxTrades == 2     \* a ledger executes at most MaxTrades trades

\* The markets a ledger starts from: empty, of liquidity 0, 1 and MaxWeiB wei
LedgerMarkets == {<<Zero, Zero, Big(k)>> : k \in {0, 1, MaxWeiB}}

\* The share quantities added to a market of liquidity b, and the liquidity
\* it is compared at
ShareScale(b) == IF Lt(b, E18) THEN WeiQ \ {Zero} ELSE {Lot}
BScale(b) == IF Lt(b, E18) THEN WeiB ELSE {DEFAULT_LMSR_PARAMS.b0, MulSmall(DEFAULT_LMSR_PARAMS.b0, 2)}

\* Arguments of the numeric core: every value next to a threshold of the
\* code (the steps of log2, the cap of expApprox) or to a small square
NumAnchors ==
  {<<1>>, Big(4), Big(16), E18, Log2Lo, Log2Hi, TwoE18, FourE18,
   Mul(Big(11), E18), ExpCap, ExpMax}
NumGrid == UNION {{Sub(v, <<1>>), v, Add(v, <<1>>)} : v \in NumAnchors}

\* The same with a sign: every value, and the negatives of a few
SignedGrid == {Pos(v) : v \in NumGrid} \cup {Neg(v) : v \in {<<1>>, E18, TwoE18}}

MaxCallers == 2    \* callers of one engine are 1..MaxCallers

Callers == 1..MaxCallers

\* The calls a caller makes: each public operation, on the shared market
CallerCalls ==
  {[op |-> "getPrice", args |-> << >>],
   [op |-> "validateState", args |-> << >>],
   [op |-> "calculateB", args |-> << >>],
   [op |-> "calculateShares", args |-> <<Big(MaxPay), TRUE>>],
   [op |-> "previewTrade", args |-> <<Big(MaxPay), FALSE, Big(DEFAULT_FEE_RATE)>>]}

VolGrid == {Zero, <<1>>} \cup
           {DivSmall(MulSmall(DEFAULT_LMSR_PARAMS.V0, k), 4) : k \in 1..MaxVolLots}
TxGrid == {Big(t) : t \in 0..MaxTx}

ParamChoices ==
  {DEFAULT_LMSR_PARAMS} \cup
  {[DEFAULT_LMSR_PARAMS EXCEPT !.b0 = Big(k)] : k \in 1..MaxB0Wei}

(* ------------------------------- state ------------------------------- *)

VARIABLES
  params,        \* the engine's private params, set by the constructor
  qYes, qNo, b,  \* the caller's market: shares outstanding and liquidity
  totalVolume,   \* the caller's market: volume traded
  txCount,       \* the caller's market: number of trades
  call,          \* the operation last invoked and its other arguments
  ret,           \* what that invocation returned or threw
  conn,          \* the ClearNodeConnection: its fields, sockets and timers
  broker         \* the RealYellowNetworkBroker's trading state

vars == <<params, qYes, qNo, b, totalVolume, txCount, call, ret, conn, broker>>

NoCall == [op |-> "none", args |-> << >>]
NoRet == Ok("none")

\* new ClearNodeConnection(url, wallet, opts): no socket, nothing scheduled.
\* socks holds the readyState of every WebSocket created so far, ws indexes
\* it (0 is null), timeouts holds the sockets whose connectionTimeout is
\* pending and timers counts the pending reconnect timers.
ClearNodeConnection(maxReconnectAttempts) ==
  [ws |-> 0,
   socks |-> << >>,
   timeouts |-> {},
   timers |-> 0,
   pingTimer |-> FALSE,
   reconnectAttempts |-> 0,
   maxReconnectAttempts |-> maxReconnectAttempts,
   isConnected |-> FALSE,
   isAuthenticated |-> FALSE]

\* new RealYellowNetworkBroker(brokerName): 100 shares a side (6 decimals), no
\* trade made yet, no socket. signing holds the trade messages whose
\* signMessage is awaited, sent the nonces of those written to the socket.
RealYellowNetworkBroker ==
  [qYes |-> Dec(<<100, 0, 0>>),
   qNo |-> Dec(<<100, 0, 0>>),
   totalVolume |-> Zero,
   txCount |-> 0,
   tradeNonce |-> 1,
   pendingTrades |-> << >>,
   signing |-> {},
   ws |-> "null",
   sent |-> << >>]

\* No connection is used and no broker trades
Offline ==
  /\ conn = ClearNodeConnection(5)
  /\ broker = RealYellowNetworkBroker

Idle == call.op = "none"

\* A market of no activity at one of the given (qYes, qNo, b), before any call
InitAt(markets, paramChoices) ==
  /\ params \in paramChoices
  /\ \E m \in markets : qYes = m[1] /\ qNo = m[2] /\ b = m[3]
  /\ totalVolume = Zero
  /\ txCount = Zero
  /\ call = NoCall
  /\ ret = NoRet
  /\ Offline

(* ------------------------------ operations ------------------------------ *)

GetPrice ==
  /\ Idle
  /\ call' = [op |-> "getPrice", args |-> << >>]
  /\ ret' = IF getPriceThrows(qYes, qNo, b) THEN Thrown("RangeError")
            ELSE Ok(getPrice(qYes, qNo, b))
  /\ UNCHANGED <<conn, broker, params, qYes, qNo, b, totalVolume, txCount>>

\* x, or -x when negate
Signed(negate, x) == IF negate THEN Neg(x) ELSE Pos(x)

\* validateState on the market's values, each as it is or negated
ValidateState(negYes, negNo, negB) ==
  /\ Idle
  /\ call' = [op |-> "validateState", args |-> <<negYes, negNo, negB>>]
  /\ ret' = validateState(Signed(negYes, qYes), Signed(negNo, qNo), Signed(negB, b))
  /\ UNCHANGED <<conn, broker, params, qYes, qNo, b, totalVolume, txCount>>

CalculateShares(payAmount, isYes) ==
  /\ Idle
  /\ call' = [op |-> "calculateShares", args |-> <<payAmount, isYes>>]
  /\ ret' = IF calculateSharesThrows(payAmount, isYes, qYes, qNo, b)
            THEN Thrown("RangeError")
            ELSE Ok(calculateShares(payAmount, isYes, qYes, qNo, b))
  /\ UNCHANGED <<conn, broker, params, qYes, qNo, b, totalVolume, txCount>>

\* A previewTrade that books the previewed shares on the caller's market
PreviewTradeBooking(payAmount, isYes, feeRate) ==
  /\ \/ Idle
     \/ call.op = "previewTrade" /\ call.args = <<payAmount, isYes, feeRate>>
  /\ call' = [op |-> "previewTrade", args |-> <<payAmount, isYes, feeRate>>]
  /\ ret' = IF previewTradeThrows(payAmount, isYes, qYes, qNo, b, feeRate)
            THEN Thrown("RangeError")
            ELSE Ok(previewTrade(payAmount, isYes, qYes, qNo, b, feeRate))
  /\ qYes' = IF isYes /\ ~ret'.threw THEN Add(qYes, ret'.val.expectedShares) ELSE qYes
  /\ UNCHANGED <<conn, broker, params, qNo, b, totalVolume, txCount>>

\* previewTrade, by a caller that has no call outstanding or that repeats the
\* preview it has just been shown
PreviewTrade(payAmount, isYes, feeRate) ==
  /\ \/ Idle
     \/ call.op = "previewTrade" /\ call.args = <<payAmount, isYes, feeRate>>
  /\ call' = [op |-> "previewTrade", args |-> <<payAmount, isYes, feeRate>>]
  /\ ret' = IF previewTradeThrows(payAmount, isYes, qYes, qNo, b, feeRate)
            THEN Thrown("RangeError")
            ELSE Ok(previewTrade(payAmount, isYes, qYes, qNo, b, feeRate))
  /\ UNCHANGED <<conn, broker, params, qYes, qNo, b, totalVolume, txCount>>

CalculateB ==
  /\ Idle
  /\ call' = [op |-> "calculateB", args |-> << >>]
  /\ ret' = IF calculateBThrows(params, totalVolume, txCount) THEN Thrown("RangeError")
            ELSE Ok(calculateB(params, totalVolume, txCount))
  /\ UNCHANGED <<conn, broker, params, qYes, qNo, b, totalVolume, txCount>>

\* The private cost function, applied to the market
GetCost ==
  /\ Idle
  /\ call' = [op |-> "getCost", args |-> << >>]
  /\ ret' = IF getCostThrows(qYes, qNo, b) THEN Thrown("Error")
            ELSE Ok(getCost(qYes, qNo, b))
  /\ UNCHANGED <<conn, broker, params, qYes, qNo, b, totalVolume, txCount>>

\* The caller takes the result: the engine keeps nothing of the call
Return ==
  /\ ~Idle
  /\ call' = NoCall
  /\ ret' = NoRet
  /\ UNCHANGED <<conn, broker, params, qYes, qNo, b, totalVolume, txCount>>

(* ------------------------- the market's growth ------------------------- *)

\* qYes has grown to q2 since the cost was read, and the cost is read again
RaiseQYes(q2) ==
  /\ call.op = "getCost"
  /\ Gt(q2, qYes)
  /\ qYes' = q2
  /\ ret' = Ok(getCost(q2, qNo, b))
  /\ UNCHANGED <<conn, broker, params, qNo, b, totalVolume, txCount, call>>

RaiseQNo(q2) ==
  /\ call.op = "getCost"
  /\ Gt(q2, qNo)
  /\ qNo' = q2
  /\ ret' = Ok(getCost(qYes, q2, b))
  /\ UNCHANGED <<conn, broker, params, qYes, b, totalVolume, txCount, call>>

\* totalVolume has grown to v2, and the caller takes its new b from calculateB
AddVolume(v2) ==
  /\ Idle
  /\ Gt(v2, totalVolume)
  /\ totalVolume' = v2
  /\ b' = calculateB(params, v2, txCount)
  /\ UNCHANGED <<conn, broker, params, qYes, qNo, txCount, call, ret>>

\* txCount has grown to t2, and the caller takes its new b from calculateB
AddTxCount(t2) ==
  /\ Idle
  /\ Gt(t2, txCount)
  /\ txCount' = t2
  /\ b' = calculateB(params, totalVolume, t2)
  /\ UNCHANGED <<conn, broker, params, qYes, qNo, totalVolume, call, ret>>

(* ---------------------------- numeric core ---------------------------- *)

\* The private numeric methods, called on their own.  ln and log2 take a
\* signed argument: they throw for x <= 0.
Ln(x) ==
  /\ Idle
  /\ call' = [op |-> "ln", args |-> <<x>>]
  /\ ret' = IF IsNegative(x) \/ lnThrows(x.abs)
            THEN Thrown("ln: x must be positive")
            ELSE Ok(ln(x.abs))
  /\ UNCHANGED <<conn, broker, params, qYes, qNo, b, totalVolume, txCount>>

Log2(x) ==
  /\ Idle
  /\ call' = [op |-> "log2", args |-> <<x>>]
  /\ ret' = IF IsNegative(x) \/ log2Throws(x.abs)
            THEN Thrown("log2: x must be positive")
            ELSE Ok(log2(x.abs))
  /\ UNCHANGED <<conn, broker, params, qYes, qNo, b, totalVolume, txCount>>

ExpApprox(x) ==
  /\ Idle
  /\ call' = [op |-> "expApprox", args |-> <<x>>]
  /\ ret' = Ok(expApprox(x))
  /\ UNCHANGED <<conn, broker, params, qYes, qNo, b, totalVolume, txCount>>

Sqrt(x) ==
  /\ Idle
  /\ call' = [op |-> "sqrt", args |-> <<x>>]
  /\ ret' = Ok(sqrt(x))
  /\ UNCHANGED <<conn, broker, params, qYes, qNo, b, totalVolume, txCount>>

(* ------------------------- concurrent callers ------------------------- *)

\* How the public operation named by the call k ends on an engine whose
\* params are p, for the market (qYes, qNo, b) of activity (totalVolume,
\* txCount)
engineResult(k, p, qY, qN, bb, volume, count) ==
  CASE k.op = "getPrice" ->
         IF getPriceThrows(qY, qN, bb) THEN Thrown("RangeError")
         ELSE Ok(getPrice(qY, qN, bb))
    [] k.op = "validateState" -> validateState(Pos(qY), Pos(qN), Pos(bb))
    [] k.op = "calculateB" ->
         IF calculateBThrows(p, volume, count) THEN Thrown("RangeError")
         ELSE Ok(calculateB(p, volume, count))
    [] k.op = "calculateShares" ->
         IF calculateSharesThrows(k.args[1], k.args[2], qY, qN, bb)
         THEN Thrown("RangeError")
         ELSE Ok(calculateShares(k.args[1], k.args[2], qY, qN, bb))
    [] k.op = "previewTrade" ->
         IF previewTradeThrows(k.args[1], k.args[2], qY, qN, bb, k.args[3])
         THEN Thrown("RangeError")
         ELSE Ok(previewTrade(k.args[1], k.args[2], qY, qN, bb, k.args[3]))

\* An engine that keeps the b it last computed as its base liquidity
InvokeMemoising(c, k) ==
  /\ call[c] = NoCall
  /\ call' = [call EXCEPT ![c] = k]
  /\ ret' = [ret EXCEPT ![c] = engineResult(k, params, qYes, qNo, b, totalVolume, txCount)]
  /\ params' = IF k.op = "calculateB" THEN [params EXCEPT !.b0 = ret'[c].val] ELSE params
  /\ UNCHANGED <<conn, broker, qYes, qNo, b, totalVolume, txCount>>

\* Caller c invokes a public operation of the one engine.  A method of
\* LMSRPricer has no await: it runs to its end before any other call starts,
\* so the calls of several callers interleave call by call.  Here call and
\* ret hold one entry for each caller.
Invoke(c, k) ==
  /\ call[c] = NoCall
  /\ call' = [call EXCEPT ![c] = k]
  /\ ret' = [ret EXCEPT ![c] = engineResult(k, params, qYes, qNo, b, totalVolume, txCount)]
  /\ UNCHANGED <<conn, broker, params, qYes, qNo, b, totalVolume, txCount>>

\* Caller c takes its result
Take(c) ==
  /\ call[c] # NoCall
  /\ call' = [call EXCEPT ![c] = NoCall]
  /\ ret' = [ret EXCEPT ![c] = NoRet]
  /\ UNCHANGED <<conn, broker, params, qYes, qNo, b, totalVolume, txCount>>

\* A single caller invokes the public operation named by k on the market
Operate(k) ==
  /\ Idle
  /\ call' = k
  /\ ret' = engineResult(k, params, qYes, qNo, b, totalVolume, txCount)
  /\ UNCHANGED <<conn, broker, params, qYes, qNo, b, totalVolume, txCount>>

(* ---------------------------- price impact ---------------------------- *)

\* The price change that adding shares to an outcome causes is read
PriceChange(shares, isYes) ==
  /\ Idle
  /\ call' = [op |-> "priceChange", args |-> <<shares, isYes>>]
  /\ ret' = Ok(priceChange(shares, isYes, qYes, qNo, b))
  /\ UNCHANGED <<conn, broker, params, qYes, qNo, b, totalVolume, txCount>>

\* The same price change is read again at a larger liquidity b2
RaiseB(b2) ==
  /\ call.op = "priceChange"
  /\ Gt(b2, b)
  /\ b' = b2
  /\ ret' = Ok(priceChange(call.args[1], call.args[2], qYes, qNo, b2))
  /\ UNCHANGED <<conn, broker, params, qYes, qNo, totalVolume, txCount, call>>

(* ------------------------------ the ledger ------------------------------ *)

\* A ledger that books shares on YES whatever the outcome bought
ExecuteTradeAlwaysYes(payAmount, isYes, feeRate) ==
  /\ Idle
  /\ Lt(txCount, Big(MaxTrades))
  /\ call' = [op |-> "executeTrade", args |-> <<payAmount, isYes, feeRate>>]
  /\ ret' = IF previewTradeThrows(payAmount, isYes, qYes, qNo, b, feeRate)
            THEN Thrown("RangeError")
            ELSE Ok(previewTrade(payAmount, isYes, qYes, qNo, b, feeRate))
  /\ IF ret'.threw
     THEN UNCHANGED <<conn, broker, qYes, qNo, totalVolume, txCount>>
     ELSE /\ qYes' = Add(qYes, ret'.val.expectedShares)
          /\ qNo' = qNo
          /\ totalVolume' = Add(totalVolume, payAmount)
          /\ txCount' = Add(txCount, <<1>>)
  /\ UNCHANGED <<conn, broker, params, b>>

\* The ledger that owns the market executes a trade: it previews the trade
\* on its quantities and books the previewed shares on the outcome bought,
\* as previewTrade itself derives newQYes and newQNo; a trade whose preview
\* throws is rejected and books nothing.
ExecuteTrade(payAmount, isYes, feeRate) ==
  /\ Idle
  /\ Lt(txCount, Big(MaxTrades))
  /\ call' = [op |-> "executeTrade", args |-> <<payAmount, isYes, feeRate>>]
  /\ ret' = IF previewTradeThrows(payAmount, isYes, qYes, qNo, b, feeRate)
            THEN Thrown("RangeError")
            ELSE Ok(previewTrade(payAmount, isYes, qYes, qNo, b, feeRate))
  /\ IF ret'.threw
     THEN UNCHANGED <<conn, broker, qYes, qNo, totalVolume, txCount>>
     ELSE /\ qYes' = IF isYes THEN Add(qYes, ret'.val.expectedShares) ELSE qYes
          /\ qNo' = IF isYes THEN qNo ELSE Add(qNo, ret'.val.expectedShares)
          /\ totalVolume' = Add(totalVolume, payAmount)
          /\ txCount' = Add(txCount, <<1>>)
  /\ UNCHANGED <<conn, broker, params, b>>

(* ------------------ the share search, step by step ------------------- *)

\* calculateShares seen one loop iteration at a time: while the loop runs,
\* call.args carries <<low, high, iterations>> after the two arguments
Searching == call.op = "calculateShares" /\ Len(call.args) = 3

SearchTarget == Add(getCost(qYes, qNo, b), call.args[1])

\* The loop's condition at mid-search
SearchGoesOn ==
  Lt(call.args[3][1], call.args[3][2]) /\ call.args[3][3] < maxIterations

\* calculateShares up to its loop: currentCost, targetCost, low, high
SearchBegin(payAmount, isYes) ==
  /\ Idle
  /\ IF getCostThrows(qYes, qNo, b)
     THEN /\ call' = [op |-> "calculateShares", args |-> <<payAmount, isYes>>]
          /\ ret' = Thrown("RangeError")
     ELSE /\ call' = [op |-> "calculateShares",
                      args |-> <<payAmount, isYes,
                                 <<Zero, Mul(payAmount, Big(10)), 0>>>>]
          /\ ret' = ret
  /\ UNCHANGED <<conn, broker, params, qYes, qNo, b, totalVolume, txCount>>

\* One iteration of the loop; the getCost at mid throws when b = 0
SearchIterate ==
  /\ Searching
  /\ SearchGoesOn
  /\ LET isYes == call.args[2]
         s     == call.args[3]
         mid   == DivSmall(Add(s[1], s[2]), 2)
     IN  IF getCostThrows(IF isYes THEN Add(qYes, mid) ELSE qYes,
                          IF isYes THEN qNo ELSE Add(qNo, mid), b)
         THEN /\ call' = [call EXCEPT !.args = <<call.args[1], isYes>>]
              /\ ret' = Thrown("RangeError")
         ELSE /\ call' = [call EXCEPT !.args[3] =
                            SearchStep(s, isYes, qYes, qNo, b, SearchTarget)]
              /\ ret' = ret
  /\ UNCHANGED <<conn, broker, params, qYes, qNo, b, totalVolume, txCount>>

\* The loop's condition is false: return low
SearchExit ==
  /\ Searching
  /\ ~SearchGoesOn
  /\ call' = [call EXCEPT !.args = <<call.args[1], call.args[2]>>]
  /\ ret' = Ok(call.args[3][1])
  /\ UNCHANGED <<conn, broker, params, qYes, qNo, b, totalVolume, txCount>>

\* The caller takes the result
SearchReturn ==
  /\ call.op = "calculateShares" /\ Len(call.args) = 2
  /\ call' = NoCall
  /\ ret' = Ok(Zero)
  /\ UNCHANGED <<conn, broker, params, qYes, qNo, b, totalVolume, txCount>>

(* --------------------------- specifications --------------------------- *)

\* getPrice and validateState, on every market including the saturated ones
InitPrice == InitAt(WeiMarkets \cup SatMarkets, {DEFAULT_LMSR_PARAMS})

NextPrice ==
  \/ GetPrice
  \/ \E negYes, negNo, negB \in BOOLEAN : ValidateState(negYes, negNo, negB)
  \/ Return

SpecPrice == InitPrice /\ [][NextPrice]_vars

\* calculateShares
InitShares == InitAt(TradeMarkets, {DEFAULT_LMSR_PARAMS})

NextShares ==
  \/ \E payAmount \in SharePays(qYes, qNo, b), isYes \in BOOLEAN :
       CalculateShares(payAmount, isYes)
  \/ Return

SpecShares == InitShares /\ [][NextShares]_vars

\* previewTrade
\* The markets previewed: the trade markets and a one-sided wei-scale market
\* whose NO side is at the expApprox cap, where the YES price is 0
PreviewMarkets == TradeMarkets \cup {<<Zero, Div(ExpCap, E18), <<1>>>>}

InitPreview == InitAt(PreviewMarkets, {DEFAULT_LMSR_PARAMS})

NextPreview ==
  \/ \E payAmount \in Pays(qYes, qNo, b), isYes \in BOOLEAN, feeRate \in FeeRates :
       PreviewTrade(payAmount, isYes, feeRate)
  \/ Return

SpecPreview == InitPreview /\ [][NextPreview]_vars

\* getCost on a market with b > 0 whose quantities grow
InitCost ==
  /\ InitAt(WeiMarkets \cup SatMarkets, {DEFAULT_LMSR_PARAMS})
  /\ b # Zero

NextCost ==
  \/ GetCost
  \/ \E q2 \in QScale(b) : RaiseQYes(q2)
  \/ \E q2 \in QScale(b) : RaiseQNo(q2)
  \/ Return

SpecCost == InitCost /\ [][NextCost]_vars

\* calculateB on a market whose activity grows from none
InitB ==
  /\ params \in ParamChoices
  /\ qYes = Zero
  /\ qNo = Zero
  /\ totalVolume = Zero
  /\ txCount = Zero
  /\ b = calculateB(params, totalVolume, txCount)
  /\ call = NoCall
  /\ ret = NoRet
  /\ Offline

NextB ==
  \/ CalculateB
  \/ \E v2 \in VolGrid : AddVolume(v2)
  \/ \E t2 \in TxGrid : AddTxCount(t2)
  \/ Return

SpecB == InitB /\ [][NextB]_vars

(* ------------------------------ properties ------------------------------ *)

\* C1: on a market with b > 0, getPrice returns prices that each lie in
\* [0, 10^18] and whose sum is less than 10^15 away from 10^18.
C1_PricesInRange ==
  (call.op = "getPrice" /\ b # Zero) =>
    /\ ~ret.threw
    /\ Le(ret.val[1], E18)
    /\ Le(ret.val[2], E18)
    /\ Lt(AbsDiff(Add(ret.val[1], ret.val[2]), E18), Tolerance)

\* getPrice has returned at an unbalanced market with shares on both sides
C1_Witness ==
  /\ call.op = "getPrice"
  /\ ~ret.threw
  /\ qNo # Zero
  /\ Gt(qYes, qNo)
  /\ Gt(ret.val[1], ret.val[2])

\* C2: calculateShares never over-issues: the returned share quantity s
\* satisfies getCost(q + s on the chosen outcome) - getCost(q) <= payAmount.
C2_NeverOverIssues ==
  (call.op = "calculateShares" /\ ~ret.threw) =>
    LET payAmount == call.args[1]
        isYes     == call.args[2]
        newQYes   == IF isYes THEN Add(qYes, ret.val) ELSE qYes
        newQNo    == IF isYes THEN qNo ELSE Add(qNo, ret.val)
    IN  Le(getCost(newQYes, newQNo, b), Add(getCost(qYes, qNo, b), payAmount))

\* C3: for fixed b > 0 getCost is non-decreasing in qYes and in qNo: when
\* either quantity has grown and the cost is read again, the cost read is
\* not smaller than the cost read before.
C3_CostMonotone ==
  [][(call.op = "getCost" /\ call'.op = "getCost") => Le(ret.val, ret'.val)]_vars

\* The cost has been read at a market grown to the saturation threshold,
\* and is larger there than at the empty market
C3_Witness ==
  /\ call.op = "getCost"
  /\ ~ret.threw
  /\ Ge(qYes, SatEdge)
  /\ Gt(ret.val, getCost(Zero, Zero, b))

\* C4: calculateB is non-decreasing: when totalVolume alone or txCount alone
\* grows (from (0, 0) too), the b the caller takes from calculateB does not
\* decrease, so along any run the liquidity parameter never decreases.
C4_LiquidityMonotone == [][Le(b, b')]_vars

\* Both the volume and the transaction count have grown, and b with them
C4_Witness ==
  /\ totalVolume # Zero
  /\ txCount # Zero
  /\ Gt(b, params.b0)

\* C5: at a balanced market (qYes = qNo) calculateShares returns the same
\* quantity for YES as for NO.
C5_OutcomeSymmetry ==
  (call.op = "calculateShares" /\ ~ret.threw /\ qYes = qNo) =>
    ret.val = calculateShares(call.args[1], ~call.args[2], qYes, qNo, b)

\* calculateShares has returned shares at a balanced market that is not empty
C5_Witness ==
  /\ call.op = "calculateShares"
  /\ ~ret.threw
  /\ qYes = qNo
  /\ qYes # Zero
  /\ ret.val # Zero

\* C6: previewTrade has no side effects: a call leaves the caller's
\* (qYes, qNo, b) and the engine's params as they were, and a call repeated
\* with the same arguments returns the same TradePreview.
C6_PreviewPure ==
  [][call'.op = "previewTrade" =>
       /\ <<qYes, qNo, b, params>>' = <<qYes, qNo, b, params>>
       /\ (call.op = "previewTrade" /\ call'.args = call.args) => ret' = ret]_vars

\* A preview has returned shares at a market that had shares outstanding
C6_Witness ==
  /\ call.op = "previewTrade"
  /\ ~ret.threw
  /\ ret.val.expectedShares # Zero
  /\ qYes # Zero

\* C7: getPrice(0, 0, b) returns exactly (5 * 10^17, 5 * 10^17), for any b.
C7_EmptyMarketPrice ==
  (call.op = "getPrice" /\ qYes = Zero /\ qNo = Zero) =>
    ret = Ok(<<Dec(<<500, 0, 0, 0, 0, 0>>), Dec(<<500, 0, 0, 0, 0, 0>>)>>)

\* getPrice has returned at the empty market with b = 0
C7_Witness ==
  /\ call.op = "getPrice"
  /\ qYes = Zero
  /\ qNo = Zero
  /\ b = Zero
  /\ ~ret.threw

\* C8: calculateB(0, 0) returns exactly the configured b0.
C8_InitialLiquidity ==
  (call.op = "calculateB" /\ totalVolume = Zero /\ txCount = Zero) =>
    ret = Ok(params.b0)

\* calculateB has returned at (0, 0) on an engine whose b0 is not the default
C8_Witness ==
  /\ call.op = "calculateB"
  /\ totalVolume = Zero
  /\ txCount = Zero
  /\ params.b0 = <<1>>
  /\ ~ret.threw

\* C9: validateState returns false, and does not throw, when qYes < 0 or
\* qNo < 0 or b <= 0; it returns true at the empty market with b > 0; and
\* otherwise it returns whether |pYes + pNo - 10^18| < 10^15 for getPrice's
\* prices.
C9_ValidateState ==
  call.op = "validateState" =>
    LET sYes == Signed(call.args[1], qYes)
        sNo  == Signed(call.args[2], qNo)
        sB   == Signed(call.args[3], b)
        p    == getPrice(qYes, qNo, b)
    IN  IF IsNegative(sYes) \/ IsNegative(sNo) \/ ~IsPositive(sB)
        THEN ret = Ok(FALSE)
        ELSE IF qYes = Zero /\ qNo = Zero
        THEN ret = Ok(TRUE)
        ELSE ret = Ok(Lt(AbsDiff(Add(p[1], p[2]), E18), Tolerance))

\* validateState has returned false at b = 0 on a market with shares, where
\* getPrice would have divided by zero
C9_Witness ==
  /\ call.op = "validateState"
  /\ b = Zero
  /\ qYes # Zero
  /\ ret = Ok(FALSE)

\* The scenario of C10: 100 units paid at feeRate 50 into the balanced
\* market of 100 units a side with b = 100 units
ScenarioPreview ==
  /\ call.op = "previewTrade"
  /\ call.args[1] = Mul(Big(100), E18)
  /\ call.args[3] = Big(50)
  /\ qYes = Mul(Big(100), E18)
  /\ qNo = Mul(Big(100), E18)
  /\ b = Mul(Big(100), E18)

\* C10 as stated: in the scenario the returned expectedShares is strictly
\* less than the returned netAmount (99.5 * 10^18).
C10_SharesBelowNet ==
  ScenarioPreview =>
    /\ ~ret.threw
    /\ ret.val.netAmount = Dec(<<99, 500, 0, 0, 0, 0, 0>>)
    /\ Lt(ret.val.expectedShares, ret.val.netAmount)

\* C10, amended: in the scenario netAmount is 99.5 * 10^18 and expectedShares
\* is 163994108616025791041, strictly greater than netAmount, for either
\* outcome.
C10_SharesAboveNet ==
  ScenarioPreview =>
    /\ ~ret.threw
    /\ ret.val.netAmount = Dec(<<99, 500, 0, 0, 0, 0, 0>>)
    /\ ret.val.expectedShares = Dec(<<163, 994, 108, 616, 25, 791, 41>>)
    /\ Gt(ret.val.expectedShares, ret.val.netAmount)

\* The scenario's preview has returned for the NO outcome
C10_Witness ==
  /\ ScenarioPreview
  /\ ~call.args[2]
  /\ ~ret.threw

\* previewTrade at fee rates that truncate
InitFee == InitAt(FeeMarkets, {DEFAULT_LMSR_PARAMS})

NextFee ==
  \/ \E payAmount \in Pays(qYes, qNo, b), isYes \in BOOLEAN :
       \E feeRate \in TruncFeeRates(payAmount) : PreviewTrade(payAmount, isYes, feeRate)
  \/ Return

SpecFee == InitFee /\ [][NextFee]_vars

\* C11: previewTrade takes the fee off the top: fee is the truncated quotient
\* (payAmount * feeRate) / 10000, fee + netAmount = payAmount, and
\* expectedShares is what calculateShares returns for netAmount; 100 * 10^18
\* paid at feeRate 50 gives fee 5 * 10^17 and netAmount 995 * 10^17.
C11_FeeOffTheTop ==
  (call.op = "previewTrade" /\ ~ret.threw) =>
    LET payAmount == call.args[1]
        isYes     == call.args[2]
        feeRate   == call.args[3]
        fee       == ret.val.fee
        netAmount == ret.val.netAmount
    IN  /\ Le(Mul(fee, Big(10000)), Mul(payAmount, feeRate))
        /\ Lt(Mul(payAmount, feeRate), Mul(Add(fee, <<1>>), Big(10000)))
        /\ Add(fee, netAmount) = payAmount
        /\ ret.val.expectedShares = calculateShares(netAmount, isYes, qYes, qNo, b)
        /\ (payAmount = Dec(<<100, 0, 0, 0, 0, 0, 0>>) /\ feeRate = Big(50)) =>
             /\ fee = Dec(<<500, 0, 0, 0, 0, 0>>)
             /\ netAmount = Dec(<<99, 500, 0, 0, 0, 0, 0>>)

\* A preview has returned with a truncated fee: 3 wei at 50% pay a fee of 1
\* and buy shares for the other 2
C11_Witness ==
  /\ call.op = "previewTrade"
  /\ ~ret.threw
  /\ call.args[1] = <<3>>
  /\ ret.val.fee = <<1>>
  /\ ret.val.netAmount = <<2>>
  /\ ret.val.expectedShares # Zero

\* C12: with the default params, calculateB(1,000,000 * 10^18, 10) equals
\* 100 * 10^18 * (1 + 0.05 * 1 + 0.02 * L) in 10^18 fixed point, L being the
\* engine's ln(11 * 10^18): the volume term contributes the full 0.05 and
\* the result is at least 105 * 10^18.
C12_FullVolumeTerm ==
  (/\ call.op = "calculateB"
   /\ params = DEFAULT_LMSR_PARAMS
   /\ totalVolume = Mul(Big(1000000), E18)
   /\ txCount = Big(10)) =>
    LET L          == ln(Mul(Big(11), E18))
        multiplier == Add(Add(E18, Mul(Big(5), Pow(Big(10), 16))),
                          Div(Mul(Mul(Big(2), Pow(Big(10), 16)), L), E18))
    IN  /\ ~ret.threw
        /\ ret.val = Div(Mul(Mul(Big(100), E18), multiplier), E18)
        /\ Ge(ret.val, Mul(Big(105), E18))

\* C13: getCost(0, 0, b) is (b * 693147180559945309) / 10^18 with truncating
\* division; for b = 100 * 10^18 it is 69314718055994530900.
C13_CostAtEmptyMarket ==
  (call.op = "getCost" /\ qYes = Zero /\ qNo = Zero) =>
    /\ ~ret.threw
    /\ ret.val = Div(Mul(b, Dec(<<693, 147, 180, 559, 945, 309>>)), E18)
    /\ b = Mul(Big(100), E18) => ret.val = Dec(<<69, 314, 718, 55, 994, 530, 900>>)

\* C14: the value calculateShares returns lies in [0, 10 * payAmount].  (A
\* bigint is modelled by its digits, so a returned value is >= 0 by
\* construction: low starts at 0 and is only ever set to mid + 1.)
C14_SharesWithinBound ==
  (call.op = "calculateShares" /\ ~ret.threw) =>
    Le(ret.val, Mul(call.args[1], Big(10)))

\* calculateShares has returned the bound itself for a payment that is not 0
C14_Witness ==
  /\ call.op = "calculateShares"
  /\ ~ret.threw
  /\ call.args[1] # Zero
  /\ ret.val = Mul(call.args[1], Big(10))

\* A ledger executing trades on a market that starts empty
InitLedger == InitAt(LedgerMarkets, {DEFAULT_LMSR_PARAMS})

NextLedger ==
  \/ \E payAmount \in Pays(qYes, qNo, b), isYes \in BOOLEAN :
       ExecuteTrade(payAmount, isYes, Big(DEFAULT_FEE_RATE))
  \/ Return

SpecLedger == InitLedger /\ [][NextLedger]_vars

\* C15: over any sequence of trades in which the ledger books each
\* previewTrade result as q_outcome' = q_outcome + expectedShares, qYes and
\* qNo never decrease, and a trade on one outcome leaves the quantity of the
\* other outcome as it was.  (Quantities are >= 0 by construction.)
C15_QuantitiesOnlyGrow ==
  [][/\ Le(qYes, qYes')
     /\ Le(qNo, qNo')
     /\ (call'.op = "executeTrade" /\ ~ret'.threw) =>
          IF call'.args[2]
          THEN qYes' = Add(qYes, ret'.val.expectedShares) /\ qNo' = qNo
          ELSE qNo' = Add(qNo, ret'.val.expectedShares) /\ qYes' = qYes]_vars

\* Two trades have been executed and each outcome has shares outstanding
C15_Witness ==
  /\ txCount = <<2>>
  /\ qYes # Zero
  /\ qNo # Zero

\* The price change of a fixed purchase, at a liquidity that grows
InitImpact ==
  /\ InitAt(WeiMarkets \cup SatMarkets, {DEFAULT_LMSR_PARAMS})
  /\ b # Zero

NextImpact ==
  \/ \E shares \in ShareScale(b), isYes \in BOOLEAN : PriceChange(shares, isYes)
  \/ \E b2 \in BScale(b) : RaiseB(b2)
  \/ Return

SpecImpact == InitImpact /\ [][NextImpact]_vars

\* C16 as stated: for fixed qYes, qNo, a fixed share quantity s > 0 added to
\* one outcome and 0 < b1 < b2, the change in that outcome's price is no
\* larger under b2 than under b1.
C16_LargerBSmallerImpact ==
  [][(call.op = "priceChange" /\ call'.op = "priceChange") =>
       SignedLe(ret'.val, ret.val)]_vars

\* C16, amended: at the empty market (qYes = qNo = 0) the change in an
\* outcome's price caused by adding s > 0 shares to it is not negative, and
\* is no larger under b2 than under b1 for 0 < b1 < b2.
C16_LargerBSmallerImpactAtEmpty ==
  [][(call.op = "priceChange" /\ call'.op = "priceChange"
        /\ qYes = Zero /\ qNo = Zero) =>
       /\ ~ret.val.neg
       /\ ~ret'.val.neg
       /\ Le(ret'.val.abs, ret.val.abs)]_vars

\* At the empty market the price change has been read at the largest
\* wei-scale liquidity, after growing it, and is not 0 there
C16_Witness ==
  /\ call.op = "priceChange"
  /\ qYes = Zero
  /\ qNo = Zero
  /\ b = Big(MaxWeiB)
  /\ ret.val.abs # Zero

\* The numeric core on its own
InitNumeric == InitAt({<<Zero, Zero, DEFAULT_LMSR_PARAMS.b0>>}, {DEFAULT_LMSR_PARAMS})

NextNumeric ==
  \/ \E x \in SignedGrid : Ln(x)
  \/ \E x \in SignedGrid : Log2(x)
  \/ \E x \in NumGrid : ExpApprox(x)
  \/ \E x \in NumGrid : Sqrt(x)
  \/ Return

SpecNumeric == InitNumeric /\ [][NextNumeric]_vars

\* C17: ln and log2 throw their domain error for every argument x <= 0 and
\* return nothing; ln(10^18) returns exactly 0.
C17_LogDomain ==
  /\ (call.op = "ln" /\ ~IsPositive(call.args[1])) =>
       ret = Thrown("ln: x must be positive")
  /\ (call.op = "log2" /\ ~IsPositive(call.args[1])) =>
       ret = Thrown("log2: x must be positive")
  /\ (call.op = "ln" /\ call.args[1] = Pos(Pow(Big(10), 18))) => ret = Ok(Zero)

\* ln has thrown at 0
C17_Witness ==
  /\ call.op = "ln"
  /\ call.args[1] = Pos(Zero)
  /\ ret.threw

\* C18: expApprox(0) is exactly 10^18, and for every x >= 42 * 10^18
\* expApprox returns one fixed maximum, 2^256 - 1, which is >= expApprox(y)
\* for every 0 <= y < 42 * 10^18.
C18_ExpSaturation ==
  call.op = "expApprox" =>
    LET x == call.args[1]
    IN  /\ ~ret.threw
        /\ x = Zero => ret.val = Pow(Big(10), 18)
        /\ Ge(x, Mul(Big(42), Pow(Big(10), 18))) =>
             ret.val = Sub(Pow(Big(2), 256), <<1>>)
        /\ Le(ret.val, Sub(Pow(Big(2), 256), <<1>>))

\* C20: log2(x) for x > 0 is 10^18 times the number n of truncating halvings
\* that bring x below 2 * 10^18, plus 0.585 * 10^18 if the remainder y is
\* >= 1.5 * 10^18, else 0.322 * 10^18 if y >= 1.25 * 10^18, else 0.
C20_Log2Formula ==
  (call.op = "log2" /\ IsPositive(call.args[1])) =>
    LET x == call.args[1].abs
        n == CHOOSE k \in 0..(10 * Len(x)) :
               /\ Lt(Div(x, Pow(Big(2), k)), Mul(Big(2), Pow(Big(10), 18)))
               /\ k > 0 => Ge(Div(x, Pow(Big(2), k - 1)), Mul(Big(2), Pow(Big(10), 18)))
        y == Div(x, Pow(Big(2), n))
        correction ==
          IF Ge(y, Mul(Big(15), Pow(Big(10), 17))) THEN Mul(Big(585), Pow(Big(10), 15))
          ELSE IF Ge(y, Mul(Big(125), Pow(Big(10), 16))) THEN Mul(Big(322), Pow(Big(10), 15))
          ELSE Zero
    IN  ret = Ok(Add(Mul(Big(n), Pow(Big(10), 18)), correction))

\* Several callers of one engine, on one market that has seen some activity
InitCallers ==
  /\ params = DEFAULT_LMSR_PARAMS
  /\ \E m \in {<<Zero, Zero, <<1>>>>, <<Big(MaxWei), <<1>>, Big(MaxWeiB)>>,
               <<<<1>>, Big(MaxWei), Zero>>} :
       qYes = m[1] /\ qNo = m[2] /\ b = m[3]
  /\ totalVolume = DEFAULT_LMSR_PARAMS.V0
  /\ txCount = <<1>>
  /\ call = [c \in Callers |-> NoCall]
  /\ ret = [c \in Callers |-> NoRet]
  /\ Offline

NextCallers ==
  \/ \E c \in Callers, k \in CallerCalls : Invoke(c, k)
  \/ \E c \in Callers : Take(c)

SpecCallers == InitCallers /\ [][NextCallers]_vars

\* C19: no public operation writes the engine's params or any other shared
\* state, so in every interleaving of the callers' calls each call returns
\* what it returns on a newly constructed engine that serves no other call,
\* and no call changes the result another caller holds.
C19_CallersIndependent ==
  [][/\ <<params, qYes, qNo, b, totalVolume, txCount>>'
          = <<params, qYes, qNo, b, totalVolume, txCount>>
     /\ \A c \in Callers :
          IF call'[c] = call[c] THEN ret'[c] = ret[c]
          ELSE call'[c] # NoCall =>
                 ret'[c] = engineResult(call'[c], DEFAULT_LMSR_PARAMS,
                                        qYes, qNo, b, totalVolume, txCount)]_vars

\* Both callers hold a result of the engine at once: one a b from
\* calculateB, the other a preview
C19_Witness ==
  /\ call[1].op = "calculateB"
  /\ call[2].op = "previewTrade"
  /\ ~ret[1].threw
  /\ ~ret[2].threw

\* C21: when the binary search converges within its iteration budget (it
\* does when 10 * payAmount < 2^maxIterations), calculateShares returns the
\* largest s in [0, 10 * payAmount] with
\* getCost(q + s on the chosen outcome) - getCost(q) <= payAmount: the
\* returned s satisfies the inequality and, below the bound, s + 1 does not.
C21_LargestAffordable ==
  (/\ call.op = "calculateShares"
   /\ ~ret.threw
   /\ Lt(Mul(call.args[1], Big(10)), Pow(Big(2), maxIterations))) =>
    LET payAmount == call.args[1]
        isYes     == call.args[2]
        target    == Add(getCost(qYes, qNo, b), payAmount)
        costAt(s) == IF isYes THEN getCost(Add(qYes, s), qNo, b)
                              ELSE getCost(qYes, Add(qNo, s), b)
    IN  /\ Le(costAt(ret.val), target)
        /\ Lt(ret.val, Mul(payAmount, Big(10))) =>
             Gt(costAt(Add(ret.val, <<1>>)), target)

\* calculateShares, one loop iteration per step, on markets with b > 0; ret
\* is the value just returned, 0 when there is none.  The loop is synchronous
\* code: once entered it runs until its condition is false.  The fairness is
\* WF_call(SearchIterate \/ SearchExit) with its ENABLED written out: those
\* two steps are enabled exactly while Searching holds, and each changes call.
InitSearch ==
  /\ params = DEFAULT_LMSR_PARAMS
  /\ \E m \in TradeMarkets :
       m[3] # Zero /\ qYes = m[1] /\ qNo = m[2] /\ b = m[3]
  /\ totalVolume = Zero
  /\ txCount = Zero
  /\ call = NoCall
  /\ ret = Ok(Zero)
  /\ Offline

NextSearch ==
  \/ \E payAmount \in Pays(qYes, qNo, b), isYes \in BOOLEAN :
       SearchBegin(payAmount, isYes)
  \/ SearchIterate
  \/ SearchExit
  \/ SearchReturn

SearchRuns ==
  \/ []<>(~Searching)
  \/ []<><<SearchIterate \/ SearchExit>>_call

SpecSearch == InitSearch /\ [][NextSearch]_vars /\ SearchRuns

\* C22: calculateShares always terminates: its loop runs at most 50
\* iterations, every iteration that leaves the loop running counts one
\* iteration and strictly shrinks [low, high], and a search under way
\* always comes to its return.
C22_SearchTerminates ==
  /\ [](Searching => call.args[3][3] <= maxIterations)
  /\ [][(Searching /\ Searching') =>
          /\ call'.args[3][3] = call.args[3][3] + 1
          /\ Le(call.args[3][1], call'.args[3][1])
          /\ Le(call'.args[3][1], call'.args[3][2])
          /\ Le(call'.args[3][2], call.args[3][2])
          /\ Lt(Sub(call'.args[3][2], call'.args[3][1]), Sub(call.args[3][2], call.args[3][1]))]_vars
  /\ (Searching ~> ~Searching)

\* The loop stopped by the iteration cap with low < high
C22_Witness ==
  /\ Searching
  /\ call.args[3][3] = maxIterations
  /\ Lt(call.args[3][1], call.args[3][2])

\* C23: sqrt(x) terminates for every x >= 0 (its loop's condition z < y is
\* false within the iterations run) and returns the integer square root r,
\* r * r <= x < (r + 1) * (r + 1); sqrt(0) returns 0.
C23_IntegerSquareRoot ==
  (call.op = "sqrt") =>
    LET x == call.args[1]
        r == ret.val
        s == SqrtLoop(x, <<x, DivSmall(Add(x, <<1>>), 2)>>, 10 * Len(x) + 8)
    IN  /\ ~ret.threw
        /\ x # Zero => ~Lt(s[2], s[1])
        /\ Le(Mul(r, r), x)
        /\ Lt(x, Mul(Add(r, <<1>>), Add(r, <<1>>)))
        /\ x = Zero => r = Zero

\* sqrt of a large x that is not a perfect square
C23_Witness ==
  /\ call.op = "sqrt"
  /\ Gt(call.args[1], E18)
  /\ Mul(ret.val, ret.val) # call.args[1]

\* Whether the target cost is out of reach within the search bound.  getCost
\* does not decrease in a quantity (C3_CostMonotone), so no share quantity in
\* [0, 10 * payAmount] reaches the target exactly when the bound itself does
\* not.
TargetOutOfReach ==
  LET payAmount == call.args[1]
      isYes     == call.args[2]
      bound     == Mul(payAmount, Big(10))
  IN  Lt(IF isYes THEN getCost(Add(qYes, bound), qNo, b)
                  ELSE getCost(qYes, Add(qNo, bound), b),
         Add(getCost(qYes, qNo, b), payAmount))

\* C24: when no share quantity in [0, 10 * payAmount] reaches the target cost
\* getCost(q) + payAmount, calculateShares raises no error and returns exactly
\* the upper bound 10 * payAmount.
C24_BoundClamped ==
  (call.op = "calculateShares" /\ b # Zero /\ TargetOutOfReach) =>
    /\ ~ret.threw
    /\ ret.val = Mul(call.args[1], Big(10))

\* C24, amended: in that case calculateShares raises no error and returns a
\* value within the bound; it is exactly 10 * payAmount when the search
\* converges, which it does when 10 * payAmount < 2^maxIterations, and
\* otherwise falls short of the bound by less than 10 * payAmount /
\* 2^maxIterations + 1.
C24_BoundClampedWhenConverged ==
  (call.op = "calculateShares" /\ b # Zero /\ TargetOutOfReach) =>
    LET bound == Mul(call.args[1], Big(10))
        cap   == Pow(Big(2), maxIterations)
    IN  /\ ~ret.threw
        /\ Le(ret.val, bound)
        /\ Lt(bound, cap) => ret.val = bound
        /\ Le(Sub(bound, ret.val), Add(Div(bound, cap), <<1>>))

\* The target was out of reach and the iteration cap stopped the search short
\* of the bound
C24_Witness ==
  /\ call.op = "calculateShares"
  /\ b # Zero
  /\ TargetOutOfReach
  /\ ~ret.threw
  /\ Lt(ret.val, Mul(call.args[1], Big(10)))

\* C25: previewTrade reports newPrice, the bought outcome's getPrice at the
\* quantities after adding expectedShares with the same b; priceImpact, the
\* quotient ((newPrice - currentPrice) * 10^18) / currentPrice truncated
\* toward 0, and 0 when currentPrice is 0; and avgPrice, the truncated
\* quotient (netAmount * 10^18) / expectedShares, and 0 when expectedShares
\* is 0.
C25_ImpactAndAverage ==
  (call.op = "previewTrade" /\ ~ret.threw) =>
    LET isYes        == call.args[2]
        shares       == ret.val.expectedShares
        netAmount    == ret.val.netAmount
        impact       == ret.val.priceImpact
        avgPrice     == ret.val.avgPrice
        after        == IF isYes THEN getPrice(Add(qYes, shares), qNo, b)
                                 ELSE getPrice(qYes, Add(qNo, shares), b)
        newPrice     == IF isYes THEN after[1] ELSE after[2]
        now          == getPrice(qYes, qNo, b)
        currentPrice == IF isYes THEN now[1] ELSE now[2]
        scaled       == Mul(AbsDiff(newPrice, currentPrice), E18)
        paid         == Mul(netAmount, E18)
    IN  /\ ret.val.newPrice = newPrice
        /\ IF currentPrice = Zero THEN impact = Pos(Zero)
           ELSE /\ Le(Mul(impact.abs, currentPrice), scaled)
                /\ Lt(scaled, Mul(Add(impact.abs, <<1>>), currentPrice))
                /\ impact.neg = (Lt(newPrice, currentPrice) /\ impact.abs # Zero)
        /\ IF shares = Zero THEN avgPrice = Zero
           ELSE /\ Le(Mul(avgPrice, shares), paid)
                /\ Lt(paid, Mul(Add(avgPrice, <<1>>), shares))

\* A preview that moved the price: a non-zero impact and a non-zero average
C25_Witness ==
  /\ call.op = "previewTrade"
  /\ ~ret.threw
  /\ ret.val.priceImpact.abs # Zero
  /\ ret.val.avgPrice # Zero
  /\ ret.val.expectedShares # <<1>>

\* Every public operation on valid inputs: qYes, qNo >= 0, b > 0, payAmount
\* >= 0, feeRate >= 0 (up to twice the denominator), totalVolume, txCount >=
\* 0 and V0 > 0.  A market either has no history, or is one wei-scale market
\* with some volume and trades behind it.
ValidMarkets ==
  {m \in PreviewMarkets :
     m[3] \in {<<1>>, DEFAULT_LMSR_PARAMS.b0} /\ m[1] # UnitPay}

\* The payments previewed: the least and the largest offered
ValidPays == {p \in Pays(qYes, qNo, b) : p = <<1>> \/ p = Big(MaxPay)}

ValidFeeRates == FeeRates \cup {MulSmall(FeeDenominator, 2)}

InitValid ==
  /\ \/ InitAt(ValidMarkets, {DEFAULT_LMSR_PARAMS})
     \/ /\ params \in ParamChoices
        /\ qYes = Big(MaxWei) /\ qNo = Zero /\ b = Big(MaxWeiB)
        /\ totalVolume \in {<<1>>, DEFAULT_LMSR_PARAMS.V0}
        /\ txCount \in {Zero, Big(MaxTx)}
  /\ call = NoCall
  /\ ret = NoRet
  /\ Offline

\* The calls made: each public operation, on arguments that are valid
ValidCalls ==
  {[op |-> "calculateB", args |-> << >>],
   [op |-> "getPrice", args |-> << >>],
   [op |-> "validateState", args |-> << >>]} \cup
  {[op |-> "calculateShares", args |-> <<payAmount, isYes>>] :
     payAmount \in Pays(qYes, qNo, b), isYes \in BOOLEAN} \cup
  {[op |-> "previewTrade", args |-> <<payAmount, isYes, feeRate>>] :
     payAmount \in ValidPays, isYes \in BOOLEAN, feeRate \in ValidFeeRates}

NextValid ==
  \/ \E k \in ValidCalls : Operate(k)
  \/ Return

SpecValid == InitValid /\ [][NextValid]_vars

\* The quantities an operation hands to getPrice: the market's, and for a
\* preview those after the previewed shares are added
PricedAfter ==
  IF call.op = "previewTrade" /\ ~ret.threw
  THEN IF call.args[2] THEN <<Add(qYes, ret.val.expectedShares), qNo>>
                       ELSE <<qYes, Add(qNo, ret.val.expectedShares)>>
  ELSE <<qYes, qNo>>

\* C27: for valid inputs no engine operation raises: calculateB, getPrice,
\* calculateShares, previewTrade and validateState return, and no getPrice
\* among them takes its zero-sum fallback branch.
C27_ValidInputsNeverRaise ==
  (~Idle) =>
    /\ ~ret.threw
    /\ ~calculateBThrows(params, totalVolume, txCount)
    /\ ~getCostThrows(qYes, qNo, b)
    /\ ~getPriceFallsBack(qYes, qNo, b)
    /\ ~getPriceFallsBack(PricedAfter[1], PricedAfter[2], b)

\* A preview at a fee rate above the denominator has returned: no shares, a
\* negative netAmount
C27_Witness ==
  /\ call.op = "previewTrade"
  /\ ~ret.threw
  /\ Gt(call.args[3], FeeDenominator)
  /\ call.args[1] # Zero
  /\ IsNegative(ret.val.netAmount)
  /\ ret.val.expectedShares = Zero

\* C28: buying never lowers the bought outcome's price: for a valid market,
\* payAmount >= 0 and feeRate in [0, 10000], previewTrade returns newPrice >=
\* the current price of the bought outcome, and priceImpact >= 0.
C28_BuyingNeverLowersPrice ==
  (/\ call.op = "previewTrade"
   /\ ~ret.threw
   /\ Le(call.args[3], FeeDenominator)) =>
    LET now          == getPrice(qYes, qNo, b)
        currentPrice == IF call.args[2] THEN now[1] ELSE now[2]
    IN  /\ Ge(ret.val.newPrice, currentPrice)
        /\ ~IsNegative(ret.val.priceImpact)

\* A preview whose shares raised the bought outcome's price
C28_Witness ==
  /\ call.op = "previewTrade"
  /\ ~ret.threw
  /\ ret.val.expectedShares # Zero
  /\ Gt(ret.val.newPrice,
        IF call.args[2] THEN getPrice(qYes, qNo, b)[1] ELSE getPrice(qYes, qNo, b)[2])
  /\ IsPositive(ret.val.priceImpact)

\* The share quantities below r that are examined: all of them when r is
\* within the wei grid's bound, else the least, the middle and the largest
Below(r) ==
  IF Le(r, Big(10 * MaxPay))
  THEN {s \in {Big(k) : k \in 0..(10 * MaxPay)} : Lt(s, r)}
  ELSE {Zero, DivSmall(r, 2), Sub(r, <<1>>)}

\* C29: the binary-search invariant of calculateShares: for every valid
\* input, also when the 50-iteration cap stops the search early, every share
\* quantity s strictly below the returned value has
\* getCost(q + s on the chosen outcome) < getCost(q) + payAmount.
C29_BelowResultBelowTarget ==
  (call.op = "calculateShares" /\ ~ret.threw) =>
    LET payAmount == call.args[1]
        isYes     == call.args[2]
        target    == Add(getCost(qYes, qNo, b), payAmount)
    IN  \A s \in Below(ret.val) :
          Lt(IF isYes THEN getCost(Add(qYes, s), qNo, b)
                      ELSE getCost(qYes, Add(qNo, s), b), target)

\* The cap stopped a search that returned a large quantity
C29_Witness ==
  /\ call.op = "calculateShares"
  /\ ~ret.threw
  /\ Gt(ret.val, Pow(Big(2), maxIterations))
  /\ call.args[1] = UnitPay


(* ------------------------------ the broker ------------------------------ *)

\* The most trades one broker executes in a run
MaxP2PTrades == 3

\* An invocation runs to its await
ExecuteRealP2PTrade(outcome, amount) ==
  /\ broker.tradeNonce <= MaxP2PTrades
  /\ broker' = executeRealP2PTrade(broker, outcome, amount)
  /\ UNCHANGED <<params, qYes, qNo, b, totalVolume, txCount, call, ret, conn>>

\* signMessage resolves for one waiting invocation, which runs to its end:
\* it sends the message if the socket is open and stores it
SignMessageResolves(tradeMessage) ==
  /\ tradeMessage \in broker.signing
  /\ broker' = [broker EXCEPT
                  !.signing = broker.signing \ {tradeMessage},
                  !.sent = IF broker.ws = "open"
                           THEN Append(broker.sent, tradeMessage.nonce)
                           ELSE broker.sent,
                  !.pendingTrades = Append(broker.pendingTrades, tradeMessage)]
  /\ UNCHANGED <<params, qYes, qNo, b, totalVolume, txCount, call, ret, conn>>

ConnectToYellowNetwork ==
  /\ broker.ws = "null"
  /\ broker' = [broker EXCEPT !.ws = "connecting"]
  /\ UNCHANGED <<params, qYes, qNo, b, totalVolume, txCount, call, ret, conn>>

\* the 'open' and the 'close' event of the broker's socket
BrokerSocketOpen ==
  /\ broker.ws = "connecting"
  /\ broker' = [broker EXCEPT !.ws = "open"]
  /\ UNCHANGED <<params, qYes, qNo, b, totalVolume, txCount, call, ret, conn>>

BrokerSocketClose ==
  /\ broker.ws \in {"connecting", "open"}
  /\ broker' = [broker EXCEPT !.ws = "closed"]
  /\ UNCHANGED <<params, qYes, qNo, b, totalVolume, txCount, call, ret, conn>>

\* The amounts traded: the 100 and 150 YUSD of the demonstration
TradeAmounts == {parseUnits(100, 6), parseUnits(150, 6)}

InitBroker ==
  /\ InitAt({<<Zero, Zero, DEFAULT_LMSR_PARAMS.b0>>}, {DEFAULT_LMSR_PARAMS})

NextBroker ==
  \/ \E outcome \in BOOLEAN, amount \in TradeAmounts :
       ExecuteRealP2PTrade(outcome, amount)
  \/ \E tradeMessage \in broker.signing : SignMessageResolves(tradeMessage)
  \/ ConnectToYellowNetwork
  \/ BrokerSocketOpen
  \/ BrokerSocketClose

SpecBroker == InitBroker /\ [][NextBroker]_vars

\* The trade messages handed out so far, signed or not
TradeMessages ==
  broker.signing \cup {broker.pendingTrades[i] : i \in DOMAIN broker.pendingTrades}

\* The broker that made the first k of the trades one after the other, in
\* the order of their nonces, each to its end before the next began
RECURSIVE OneByOne(_)
OneByOne(k) ==
  IF k = 0 THEN RealYellowNetworkBroker
  ELSE LET tradeMessage == CHOOSE m \in TradeMessages : m.nonce = k
       IN  executeRealP2PTrade(OneByOne(k - 1), tradeMessage.outcome,
                               tradeMessage.amount)

\* C26: executeRealP2PTrade reads, computes and writes back without a
\* suspension point, so invocations that overlap lose no update: after n
\* invocations the nonces handed out are exactly 1..n, txCount is n, and the
\* quantities, the volume and every trade message are those of the n trades
\* made one after the other.
C26_NoLostUpdate ==
  LET n == Cardinality(broker.signing) + Len(broker.pendingTrades)
  IN  /\ Cardinality(TradeMessages) = n
      /\ {m.nonce : m \in TradeMessages} = 1..n
      /\ broker.txCount = n
      /\ broker.tradeNonce = n + 1
      /\ LET serial == OneByOne(n)
         IN  /\ broker.qYes = serial.qYes
             /\ broker.qNo = serial.qNo
             /\ broker.totalVolume = serial.totalVolume
             /\ serial.signing = TradeMessages

\* Two invocations overlapped: the second trade is stored while the first is
\* still being signed
C26_Witness ==
  /\ \E m \in broker.signing : m.nonce = 1
  /\ \E i \in DOMAIN broker.pendingTrades : broker.pendingTrades[i].nonce = 2
  /\ broker.txCount >= 2

(* ------------------------- the ClearNode connection ------------------------- *)

\* The most WebSockets one connection object creates in a run
MaxSockets == 3

\* readyState of a socket that close() or terminate() was called on
Shut(state) == IF state \in {"connecting", "open"} THEN "closing" ELSE state

\* c after this.ws.terminate() or this.ws.close(), when this.ws is a socket
ShutCurrent(c) ==
  IF c.ws = 0 THEN c ELSE [c EXCEPT !.socks[c.ws] = Shut(c.socks[c.ws])]

\* connect(): drops the current socket, creates a WebSocket and arms its
\* connectionTimeout
connect(c) ==
  LET dropped == ShutCurrent(c)
      s == Len(c.socks) + 1
  IN  [dropped EXCEPT !.ws = s,
                      !.socks = Append(dropped.socks, "connecting"),
                      !.timeouts = dropped.timeouts \cup {s}]

\* attemptReconnect(): one more attempt and one more timer, below the maximum
attemptReconnect(c) ==
  IF c.reconnectAttempts >= c.maxReconnectAttempts THEN c
  ELSE [c EXCEPT !.reconnectAttempts = c.reconnectAttempts + 1,
                 !.timers = c.timers + 1]

\* disconnect(): closes the current socket and forgets it, stops the ping
disconnect(c) ==
  [ShutCurrent(c) EXCEPT !.ws = 0, !.pingTimer = FALSE]

UserConnect ==
  /\ Len(conn.socks) < MaxSockets
  /\ conn' = connect(conn)
  /\ call' = [op |-> "connect", args |-> <<"user">>]
  /\ UNCHANGED <<params, qYes, qNo, b, totalVolume, txCount, ret, broker>>

UserDisconnect ==
  /\ conn' = disconnect(conn)
  /\ call' = [op |-> "disconnect", args |-> <<"user">>]
  /\ UNCHANGED <<params, qYes, qNo, b, totalVolume, txCount, ret, broker>>

\* the 'open' event of socket s
SocketOpen(s) ==
  /\ conn.socks[s] = "connecting"
  /\ conn' = [conn EXCEPT !.socks[s] = "open",
                          !.timeouts = conn.timeouts \ {s},
                          !.isConnected = TRUE,
                          !.reconnectAttempts = 0,
                          !.pingTimer = (conn.ws # 0)]
  /\ UNCHANGED <<params, qYes, qNo, b, totalVolume, txCount, call, ret, broker>>

\* a 'message' event of socket s that carries a successful auth_verify
SocketAuthenticated(s) ==
  /\ conn.socks[s] = "open"
  /\ ~conn.isAuthenticated
  /\ conn' = [conn EXCEPT !.isAuthenticated = TRUE]
  /\ UNCHANGED <<params, qYes, qNo, b, totalVolume, txCount, call, ret, broker>>

\* the 'error' event of socket s, whose handshake failed: 'close' follows
SocketError(s) ==
  /\ conn.socks[s] = "connecting"
  /\ conn' = [conn EXCEPT !.socks[s] = "closing",
                          !.timeouts = conn.timeouts \ {s}]
  /\ UNCHANGED <<params, qYes, qNo, b, totalVolume, txCount, call, ret, broker>>

\* the 'close' event of socket s: closed by the peer, or after close() or
\* terminate()
SocketClose(s) ==
  /\ conn.socks[s] \in {"open", "closing"}
  /\ conn' = attemptReconnect([conn EXCEPT !.socks[s] = "closed",
                                           !.timeouts = conn.timeouts \ {s},
                                           !.isConnected = FALSE,
                                           !.isAuthenticated = FALSE,
                                           !.pingTimer = FALSE])
  /\ UNCHANGED <<params, qYes, qNo, b, totalVolume, txCount, call, ret, broker>>

\* the connectionTimeout of socket s fires
ConnectionTimeout(s) ==
  /\ s \in conn.timeouts
  /\ conn' = [(IF conn.isConnected THEN conn ELSE ShutCurrent(conn))
                EXCEPT !.timeouts = conn.timeouts \ {s}]
  /\ UNCHANGED <<params, qYes, qNo, b, totalVolume, txCount, call, ret, broker>>

\* a reconnect timer fires: connect() is invoked from the timer
ReconnectTimer ==
  /\ conn.timers > 0
  /\ Len(conn.socks) < MaxSockets
  /\ conn' = [connect(conn) EXCEPT !.timers = conn.timers - 1]
  /\ call' = [op |-> "connect", args |-> <<"timer">>]
  /\ UNCHANGED <<params, qYes, qNo, b, totalVolume, txCount, ret, broker>>

\* A connection just constructed, with one of the maxReconnectAttempts options
InitConnection ==
  /\ params = DEFAULT_LMSR_PARAMS
  /\ qYes = Zero /\ qNo = Zero /\ b = DEFAULT_LMSR_PARAMS.b0
  /\ totalVolume = Zero
  /\ txCount = Zero
  /\ call = NoCall
  /\ ret = NoRet
  /\ \E maxReconnectAttempts \in {0, 1, 5} :
       conn = ClearNodeConnection(maxReconnectAttempts)
  /\ broker = RealYellowNetworkBroker

NextConnection ==
  \/ UserConnect
  \/ UserDisconnect
  \/ \E s \in DOMAIN conn.socks : SocketOpen(s)
  \/ \E s \in DOMAIN conn.socks : SocketAuthenticated(s)
  \/ \E s \in DOMAIN conn.socks : SocketError(s)
  \/ \E s \in DOMAIN conn.socks : SocketClose(s)
  \/ \E s \in DOMAIN conn.socks : ConnectionTimeout(s)
  \/ ReconnectTimer

SpecConnection == InitConnection /\ [][NextConnection]_vars

\* C30 as stated: after the user calls disconnect() the connection stays
\* down: while disconnect() is the last call made, no event schedules a
\* reconnect and no timer invokes connect().
C30_StaysDownAfterDisconnect ==
  [][call.op = "disconnect" =>
       /\ conn'.timers <= conn.timers
       /\ call'.op = "connect" => call'.args = <<"user">>]_vars

====
